---------------------------- MODULE Spec2Model ----------------------------
(***************************************************************************)
(* RINDM crop cycles: the depletion calculator (models/rindm.py), the      *)
(* cycle manager (services/rindm_cycle_manager.py), the weather monitor    *)
(* thread (services/weather_monitor.py) and the API routes that call the   *)
(* manager (app_v2.py), over the record store they share.                  *)
(*                                                                         *)
(* Nutrient levels are kg/ha rounded to two decimals in the code; here     *)
(* they are integers in hundredths of a kg/ha.  Coefficients are integers  *)
(* in hundredths.  Arithmetic is exact; round(x, 2) is round-half-even on  *)
(* the exact value.                                                        *)
(***************************************************************************)
EXTENDS Integers, Sequences, FiniteSets, TLC

(***************************************************************************)
(* Bounds of the model                                                     *)
(***************************************************************************)
MaxCycles == 2      \* rows of crop_cycles
MaxCalls == 2       \* API requests served
MaxTicks == 2       \* wake-ups of the monitor loop after its start
MaxDryTicks == 7    \* the same, in the specification without rainfall
MaxEvents == 2      \* rainfall readings > 0 offered to one cycle
MaxDay == 60        \* last calendar day observed
DayStep == 60       \* days between two observations of the calendar
LiveDays == 2       \* observations of the calendar where the monitor runs for good
LiveTicks == 1      \* wake-ups whose timestamps are told apart there
MaxSwitches == 5    \* calls of start() and stop() on the one WeatherMonitor

Null == 0 - 1

Nutrients == {"N", "P", "K"}
SoilTypes == {"sandy", "loamy", "clay"}

Min(a, b) == IF a <= b THEN a ELSE b
Max(a, b) == IF a >= b THEN a ELSE b

RECURSIVE GCD(_, _)
GCD(a, b) == IF b = 0 THEN a ELSE GCD(b, a % b)

LCM(a, b) == (a \div GCD(a, b)) * b

(***************************************************************************)
(* Exact non-negative rationals.  Frac: n/d in lowest terms.               *)
(* Mixed: q + n/d with 0 <= n < d.                                         *)
(***************************************************************************)
Frac(n, d) == [n |-> n \div GCD(n, d), d |-> d \div GCD(n, d)]

Mixed(n, d) == [q |-> n \div d, n |-> (n % d) \div GCD(n % d, d), d |-> d \div GCD(n % d, d)]

MixedAdd(a, b) ==
    LET l == LCM(a.d, b.d)
        s == a.n * (l \div a.d) + b.n * (l \div b.d)
        m == Mixed(s, l)
    IN  [q |-> a.q + b.q + m.q, n |-> m.n, d |-> m.d]

\* min(x, c) for a mixed x and an integer c
MixedMinInt(x, c) == IF x.q >= c THEN [q |-> c, n |-> 0, d |-> 1] ELSE x

\* c - x for an integer c >= x
IntMinusMixed(c, x) ==
    IF x.n = 0 THEN [q |-> c - x.q, n |-> 0, d |-> 1]
    ELSE [q |-> c - x.q - 1, n |-> x.d - x.n, d |-> x.d]

\* round(x, 2) of the code: nearest hundredth, ties to the even one
Round2(x) ==
    IF 2 * x.n < x.d THEN x.q
    ELSE IF 2 * x.n > x.d THEN x.q + 1
    ELSE IF x.q % 2 = 0 THEN x.q ELSE x.q + 1

(***************************************************************************)
(* models/rindm.py                                                         *)
(***************************************************************************)
LEACHING_COEFFICIENTS ==
    [N |-> [sandy |-> 30, loamy |-> 15, clay |-> 5],
     P |-> [sandy |-> 8, loamy |-> 5, clay |-> 3],
     K |-> [sandy |-> 20, loamy |-> 12, clay |-> 6]]

\* RUNOFF_COEFFICIENTS with the loamy and clay values of P exchanged
RUNOFF_COEFFICIENTS_exchanged ==
    [N |-> [sandy |-> 5, loamy |-> 15, clay |-> 30],
     P |-> [sandy |-> 10, loamy |-> 35, clay |-> 20],
     K |-> [sandy |-> 8, loamy |-> 18, clay |-> 28]]

\* RUNOFF_COEFFICIENTS with P below N and K in every soil class
RUNOFF_COEFFICIENTS_phosphorus_least ==
    [N |-> [sandy |-> 5, loamy |-> 15, clay |-> 30],
     P |-> [sandy |-> 4, loamy |-> 12, clay |-> 25],
     K |-> [sandy |-> 8, loamy |-> 18, clay |-> 28]]

RUNOFF_COEFFICIENTS ==
    [N |-> [sandy |-> 5, loamy |-> 15, clay |-> 30],
     P |-> [sandy |-> 10, loamy |-> 20, clay |-> 35],
     K |-> [sandy |-> 8, loamy |-> 18, clay |-> 28]]

DEFAULT_SLOPE == 3

\* duration_hours: float = 2.0 of process_rainfall_event
DEFAULT_DURATION == 2

\* _calculate_intensity_factor with the rainfall depth taken for the hourly
\* intensity, whatever the duration is
calculate_intensity_factor_hourless(rainfall_mm, duration_hours) ==
    IF duration_hours <= 0 THEN Frac(1, 2)
    ELSE IF rainfall_mm >= 25 THEN Frac(1, 1)
    ELSE Frac(rainfall_mm, 25)

calculate_intensity_factor(rainfall_mm, duration_hours) ==
    IF duration_hours <= 0 THEN Frac(1, 2)
    ELSE IF rainfall_mm >= 25 * duration_hours THEN Frac(1, 1)
    ELSE Frac(rainfall_mm, 25 * duration_hours)

calculate_slope_factor(slope_degrees) ==
    IF slope_degrees >= 15 THEN Frac(2, 1)
    ELSE Frac(15 + slope_degrees, 15)

\* NutrientLoss without line 232, total_loss = min(total_loss, current_level)
NutrientLoss_uncapped(nutrient, current_level, soil, rainfall_mm, duration_hours, slope_degrees) ==
    LET ifac == calculate_intensity_factor(rainfall_mm, duration_hours)
        sfac == calculate_slope_factor(slope_degrees)
        leaching_loss ==
            Mixed(current_level * LEACHING_COEFFICIENTS[nutrient][soil] * rainfall_mm, 10000)
        runoff_loss ==
            Mixed(current_level * RUNOFF_COEFFICIENTS[nutrient][soil] * ifac.n * sfac.n,
                  100 * ifac.d * sfac.d)
        total_loss == MixedAdd(leaching_loss, runoff_loss)
    IN  [total_loss |-> Round2(total_loss),
         leaching_loss |-> Round2(leaching_loss),
         runoff_loss |-> Round2(runoff_loss),
         remaining |-> Round2(IntMinusMixed(current_level, total_loss))]

\* NutrientLoss with the losses taken as amounts per 100 kg/ha, whatever the
\* level is, and without line 232
NutrientLoss_absolute(nutrient, current_level, soil, rainfall_mm, duration_hours, slope_degrees) ==
    LET ifac == calculate_intensity_factor(rainfall_mm, duration_hours)
        sfac == calculate_slope_factor(slope_degrees)
        leaching_loss ==
            Mixed(10000 * LEACHING_COEFFICIENTS[nutrient][soil] * rainfall_mm, 10000)
        runoff_loss ==
            Mixed(10000 * RUNOFF_COEFFICIENTS[nutrient][soil] * ifac.n * sfac.n,
                  100 * ifac.d * sfac.d)
        total_loss == MixedAdd(leaching_loss, runoff_loss)
    IN  [total_loss |-> Round2(total_loss),
         leaching_loss |-> Round2(leaching_loss),
         runoff_loss |-> Round2(runoff_loss),
         remaining |-> Round2(IntMinusMixed(current_level, total_loss))]

\* NutrientLoss with the loss of line 238 added:
\* round(current_level + total_loss, 2)
NutrientLoss_added(nutrient, current_level, soil, rainfall_mm, duration_hours, slope_degrees) ==
    LET ifac == calculate_intensity_factor(rainfall_mm, duration_hours)
        sfac == calculate_slope_factor(slope_degrees)
        leaching_loss ==
            Mixed(current_level * LEACHING_COEFFICIENTS[nutrient][soil] * rainfall_mm, 10000)
        runoff_loss ==
            Mixed(current_level * RUNOFF_COEFFICIENTS[nutrient][soil] * ifac.n * sfac.n,
                  100 * ifac.d * sfac.d)
        total_loss == MixedMinInt(MixedAdd(leaching_loss, runoff_loss), current_level)
    IN  [total_loss |-> Round2(total_loss),
         leaching_loss |-> Round2(leaching_loss),
         runoff_loss |-> Round2(runoff_loss),
         remaining |-> Round2([total_loss EXCEPT !.q = @ + current_level])]

\* the body of the per-nutrient loop of calculate_nutrient_loss
NutrientLoss(nutrient, current_level, soil, rainfall_mm, duration_hours, slope_degrees) ==
    LET ifac == calculate_intensity_factor(rainfall_mm, duration_hours)
        sfac == calculate_slope_factor(slope_degrees)
        leaching_loss ==
            Mixed(current_level * LEACHING_COEFFICIENTS[nutrient][soil] * rainfall_mm, 10000)
        runoff_loss ==
            Mixed(current_level * RUNOFF_COEFFICIENTS[nutrient][soil] * ifac.n * sfac.n,
                  100 * ifac.d * sfac.d)
        total_loss == MixedMinInt(MixedAdd(leaching_loss, runoff_loss), current_level)
    IN  [total_loss |-> Round2(total_loss),
         leaching_loss |-> Round2(leaching_loss),
         runoff_loss |-> Round2(runoff_loss),
         remaining |-> Round2(IntMinusMixed(current_level, total_loss))]

\* calculate_nutrient_loss without lines 189-190, the test of duration_hours
calculate_nutrient_loss_anyduration(rainfall_mm, duration_hours, current, soil_type, slope_degrees) ==
    IF \/ rainfall_mm < 0
       \/ \E n \in Nutrients : current[n] < 0
       \/ soil_type \notin SoilTypes
    THEN [ok |-> FALSE,
          soil_type_used |-> "",
          loss |-> [n \in Nutrients |-> 0],
          leaching_loss |-> [n \in Nutrients |-> 0],
          runoff_loss |-> [n \in Nutrients |-> 0],
          remaining |-> [n \in Nutrients |-> 0]]
    ELSE LET r == [n \in Nutrients |->
                      NutrientLoss(n, current[n], soil_type, rainfall_mm,
                                   duration_hours, slope_degrees)]
         IN  [ok |-> TRUE,
              soil_type_used |-> soil_type,
              loss |-> [n \in Nutrients |-> r[n].total_loss],
              leaching_loss |-> [n \in Nutrients |-> r[n].leaching_loss],
              runoff_loss |-> [n \in Nutrients |-> r[n].runoff_loss],
              remaining |-> [n \in Nutrients |-> r[n].remaining]]

\* ok = FALSE stands for the ValueError raised by the input validation
calculate_nutrient_loss(rainfall_mm, duration_hours, current, soil_type, slope_degrees) ==
    IF \/ rainfall_mm < 0
       \/ duration_hours < 0
       \/ \E n \in Nutrients : current[n] < 0
       \/ soil_type \notin SoilTypes
    THEN [ok |-> FALSE,
          soil_type_used |-> "",
          loss |-> [n \in Nutrients |-> 0],
          leaching_loss |-> [n \in Nutrients |-> 0],
          runoff_loss |-> [n \in Nutrients |-> 0],
          remaining |-> [n \in Nutrients |-> 0]]
    ELSE LET r == [n \in Nutrients |->
                      NutrientLoss(n, current[n], soil_type, rainfall_mm,
                                   duration_hours, slope_degrees)]
         IN  [ok |-> TRUE,
              soil_type_used |-> soil_type,
              loss |-> [n \in Nutrients |-> r[n].total_loss],
              leaching_loss |-> [n \in Nutrients |-> r[n].leaching_loss],
              runoff_loss |-> [n \in Nutrients |-> r[n].runoff_loss],
              remaining |-> [n \in Nutrients |-> r[n].remaining]]

\* _determine_soil_type; "" stands for the ValueError of a total outside
\* 99..101
determine_soil_type(sand_pct, silt_pct, clay_pct) ==
    LET total == sand_pct + silt_pct + clay_pct
    IN  IF ~(99 <= total /\ total <= 101) THEN ""
        ELSE IF clay_pct >= 40 THEN "clay"
        ELSE IF sand_pct >= 70 THEN "sandy"
        ELSE IF sand_pct >= 50 THEN "sandy"
        ELSE IF clay_pct >= 27 THEN "clay"
        ELSE "loamy"

\* calculate_nutrient_loss called without soil_type and with the three
\* texture percentages (mode 2)
calculate_nutrient_loss_detailed(rainfall_mm, duration_hours, current, sand_pct, silt_pct, clay_pct, slope_degrees) ==
    IF \/ rainfall_mm < 0
       \/ duration_hours < 0
       \/ \E n \in Nutrients : current[n] < 0
    THEN calculate_nutrient_loss(rainfall_mm, duration_hours, current, "", slope_degrees)
    ELSE calculate_nutrient_loss(rainfall_mm, duration_hours, current,
                                 determine_soil_type(sand_pct, silt_pct, clay_pct),
                                 slope_degrees)

\* event.get('duration_hours', 2.0): an event is a record with rainfall_mm
\* and, optionally, duration_hours
EventDuration(event) ==
    IF "duration_hours" \in DOMAIN event THEN event.duration_hours ELSE 2

\* the entry appended to event_details (lines 309-318)
EventDetail(event_number, result) ==
    [event_number |-> event_number, loss |-> result.loss, after |-> result.remaining]

\* the loop of calculate_cumulative_loss with every event computed from the
\* initial levels: current_N, current_P and current_K are never updated
RECURSIVE cumulative_loop_uncarried(_, _, _, _)
cumulative_loop_uncarried(events, current, soil_type, event_details) ==
    IF events = <<>>
    THEN [ok |-> TRUE, current |-> current, events |-> event_details]
    ELSE LET event == Head(events)
             result == calculate_nutrient_loss(event.rainfall_mm, EventDuration(event),
                                               current, soil_type, DEFAULT_SLOPE)
         IN  IF ~result.ok
             THEN [ok |-> FALSE, current |-> current, events |-> <<>>]
             ELSE cumulative_loop_uncarried(
                      Tail(events), current, soil_type,
                      Append(event_details, EventDetail(Len(event_details) + 1, result)))

\* the loop of calculate_cumulative_loss (lines 290-318) over the events left,
\* from the levels current; ok = FALSE stands for the ValueError that
\* calculate_nutrient_loss raised for an event, which ends the call
RECURSIVE cumulative_loop(_, _, _, _)
cumulative_loop(events, current, soil_type, event_details) ==
    IF events = <<>>
    THEN [ok |-> TRUE, current |-> current, events |-> event_details]
    ELSE LET event == Head(events)
             result == calculate_nutrient_loss(event.rainfall_mm, EventDuration(event),
                                               current, soil_type, DEFAULT_SLOPE)
         IN  IF ~result.ok
             THEN [ok |-> FALSE, current |-> current, events |-> <<>>]
             ELSE cumulative_loop(
                      Tail(events), result.remaining, soil_type,
                      Append(event_details, EventDetail(Len(event_details) + 1, result)))

\* the dictionary calculate_cumulative_loss returns (lines 320-339) after the
\* loop r
CumulativeResult(initial, r) ==
    IF ~r.ok
    THEN [ok |-> FALSE, initial |-> initial,
          final |-> [n \in Nutrients |-> 0],
          total_loss |-> [n \in Nutrients |-> 0],
          total_loss_percentage |-> [n \in Nutrients |-> 0],
          events |-> <<>>]
    ELSE [ok |-> TRUE, initial |-> initial,
          final |-> r.current,
          total_loss |-> [n \in Nutrients |-> initial[n] - r.current[n]],
          total_loss_percentage |->
              [n \in Nutrients |->
                  IF initial[n] > 0
                  THEN Round2(Mixed((initial[n] - r.current[n]) * 10000, initial[n]))
                  ELSE 0],
          events |-> r.events]

\* calculate_cumulative_loss(rainfall_events, initial_N, initial_P, initial_K,
\* soil_type)
calculate_cumulative_loss(events, initial, soil_type) ==
    CumulativeResult(initial, cumulative_loop(events, initial, soil_type, <<>>))

(***************************************************************************)
(* utils/crop_nutrient_database.py                                         *)
(***************************************************************************)
CROP_NUTRIENT_UPTAKE ==
    [mungbean |-> [uptake |-> [N |-> 6500, P |-> 2200, K |-> 4000], cycle_days |-> 60],
     rice |-> [uptake |-> [N |-> 12000, P |-> 4000, K |-> 14000], cycle_days |-> 120]]

\* get_crop_nutrient_uptake answering with the entry of rice for a crop it
\* does not hold
get_crop_nutrient_uptake_fallback(crop_name) ==
    IF crop_name \in DOMAIN CROP_NUTRIENT_UPTAKE
    THEN CROP_NUTRIENT_UPTAKE[crop_name]
    ELSE CROP_NUTRIENT_UPTAKE.rice

get_crop_nutrient_uptake(crop_name) ==
    IF crop_name \in DOMAIN CROP_NUTRIENT_UPTAKE
    THEN CROP_NUTRIENT_UPTAKE[crop_name]
    ELSE [uptake |-> [n \in Nutrients |-> 0], cycle_days |-> Null]

NUTRIENT_THRESHOLDS ==
    [critical |-> [N |-> 3000, P |-> 1000, K |-> 4000],
     low |-> [N |-> 6000, P |-> 2000, K |-> 8000],
     adequate |-> [N |-> 10000, P |-> 3000, K |-> 12000],
     high |-> [N |-> 15000, P |-> 5000, K |-> 20000]]

\* get_status with the comparisons inclusive: nutrient_value <= cutoff
get_status_inclusive(nutrient_value, nutrient_name) ==
    IF nutrient_value <= NUTRIENT_THRESHOLDS.critical[nutrient_name] THEN "CRITICAL"
    ELSE IF nutrient_value <= NUTRIENT_THRESHOLDS.low[nutrient_name] THEN "LOW"
    ELSE IF nutrient_value <= NUTRIENT_THRESHOLDS.adequate[nutrient_name] THEN "MODERATE"
    ELSE IF nutrient_value <= NUTRIENT_THRESHOLDS.high[nutrient_name] THEN "GOOD"
    ELSE "HIGH"

\* get_status of check_nutrient_status
get_status(nutrient_value, nutrient_name) ==
    IF nutrient_value < NUTRIENT_THRESHOLDS.critical[nutrient_name] THEN "CRITICAL"
    ELSE IF nutrient_value < NUTRIENT_THRESHOLDS.low[nutrient_name] THEN "LOW"
    ELSE IF nutrient_value < NUTRIENT_THRESHOLDS.adequate[nutrient_name] THEN "MODERATE"
    ELSE IF nutrient_value < NUTRIENT_THRESHOLDS.high[nutrient_name] THEN "GOOD"
    ELSE "HIGH"

\* needs_soil_test as its comment reads, "Check if any nutrient is critical"
needs_soil_test_critical(levels) ==
    \E n \in Nutrients : get_status(levels[n], n) \in {"CRITICAL"}

\* needs_soil_test of check_nutrient_status
needs_soil_test(levels) ==
    \E n \in Nutrients : get_status(levels[n], n) \in {"CRITICAL", "LOW"}

status_priority == [CRITICAL |-> 4, LOW |-> 3, MODERATE |-> 2, GOOD |-> 1, HIGH |-> 0]

\* check_nutrient_status: the level of each nutrient, the overall status
\* max(..., key = status_priority) and needs_soil_test
check_nutrient_status(levels) ==
    LET level == [n \in Nutrients |-> get_status(levels[n], n)]
        overall == CHOOSE l \in {level[n] : n \in Nutrients} :
                      \A n \in Nutrients : status_priority[level[n]] <= status_priority[l]
    IN  [level |-> level,
         overall_status |-> overall,
         needs_soil_test |-> needs_soil_test(levels)]

\* self.CRITICAL_THRESHOLDS of RINDMCycleManager
CRITICAL_THRESHOLDS == [N |-> 3000, P |-> 1000, K |-> 4000]


(***************************************************************************)
(* The record store, the time and the threads                              *)
(***************************************************************************)
\* the request threads of the Flask server (app.run serves each request in a
\* thread of its own)
Workers == {"api1", "api2"}
Procs == {"sched"} \cup Workers

\* the request thread at work where requests are served one at a time
Serving == {"api1"}

\* rainfall (mm in the last hour) the weather API or the mock can report
Rain == {0, 50}

\* inputs of POST /api/rindm/start-cycle; a farmer's field has the farmer's id.
\* The levels are those of the farmer's recommendation, stored as the client
\* sent them to POST /api/rindm/get-recommendations
StartInputs ==
    {[farmer_id |-> 1, crop |-> "mungbean", soil_type |-> "loamy",
      levels |-> [N |-> 9000, P |-> 4200, K |-> 4300]],
     [farmer_id |-> 1, crop |-> "mungbean", soil_type |-> "loamy",
      levels |-> [N |-> 0 - 500, P |-> 4200, K |-> 4300]],
     [farmer_id |-> 2, crop |-> "rice", soil_type |-> "sandy",
      levels |-> [N |-> 16000, P |-> 6000, K |-> 21000]],
     [farmer_id |-> 1, crop |-> "quinoa", soil_type |-> "loamy",
      levels |-> [N |-> 9000, P |-> 4200, K |-> 4300]]}

\* fields whose latitude and longitude are set
FieldsWithCoords == {1}

\* schedule.every(6).hours against schedule.every(check_interval = 60).minutes
SweepEvery == 6

VARIABLES
    crop_cycles,                \* table crop_cycles, row i has cycle_id i
    rainfall_events,            \* table rainfall_events, in insert order
    nutrient_measurements,      \* table nutrient_measurements, in insert order
    soil_test_recommendations,  \* table soil_test_recommendations
    today,                      \* CURRENT_DATE
    hour,                       \* CURRENT_TIMESTAMP, in wake-ups of the monitor loop
    reading,                    \* rainfall the weather API reports this hour
    pc,                         \* position of each thread
    loc,                        \* locals of the manager call a thread is in
    result,                     \* what the manager call of a route's request returned
    mon,                        \* the WeatherMonitor, its thread's locals, schedule's jobs
    calls,                      \* API requests accepted so far
    obs,                        \* per rainfall event: hour and source of its reading
    fired_due,                  \* cycles active and due when the current firing began
    invoked,                    \* cycles the current firing passed to complete_cycle
    calc,                       \* last call of the depletion calculator on its own
    tick                        \* the rainfall job in progress or last run

vars == <<crop_cycles, rainfall_events, nutrient_measurements,
          soil_test_recommendations, today, hour, reading, pc, loc,
          result, mon, calls, obs, fired_due, invoked, calc, tick>>

store == <<crop_cycles, rainfall_events, nutrient_measurements,
           soil_test_recommendations, obs>>

NoLevels == [n \in Nutrients |-> Null]

NoCycle ==
    [cycle_id |-> 0, farmer_id |-> 0, field_id |-> 0, cycle_number |-> 0,
     crop_name |-> "", start_date |-> Null, expected_end_date |-> Null,
     actual_end_date |-> Null, status |-> "none",
     initial |-> NoLevels, current |-> NoLevels, final |-> NoLevels,
     soil_type |-> "", uptake |-> NoLevels,
     total_rainfall_loss |-> NoLevels, rainfall_event_count |-> 0,
     last_weather_check |-> Null, created_at |-> Null]

NoReq == [farmer_id |-> 0, crop |-> "", soil_type |-> "", levels |-> NoLevels]

NoLoc == [cid |-> 0, snap |-> NoCycle, rainfall_mm |-> 0, src |-> "",
          req |-> NoReq, cycle_number |-> 0]

\* the dictionary a manager call returns, as far as its callers read it, or
\* the exception it raised (tag "exception", error: what str(e) tells)
Res(tag) ==
    [tag |-> tag, below_threshold |-> FALSE, can_continue |-> FALSE, error |-> ""]

Raised(error) == [Res("exception") EXCEPT !.error = error]

\* the tables as one value
Tables ==
    [crop_cycles |-> crop_cycles,
     rainfall_events |-> rainfall_events,
     nutrient_measurements |-> nutrient_measurements,
     soil_test_recommendations |-> soil_test_recommendations,
     obs |-> obs]

\* get_connection without lines 80-83: what the statements wrote before the
\* exception stays
get_connection_norollback(before, work, raised) == work

\* DatabaseManager.get_connection around a with block that turned the tables
\* before into work: conn.commit() when nothing raised, conn.rollback() and
\* the exception raised again otherwise
get_connection(before, work, raised) == IF raised THEN before ELSE work

CycleIds == 1..Len(crop_cycles)

EventsOf(cid) == SelectSeq(rainfall_events, LAMBDA e : e.cycle_id = cid)

MeasurementsOf(cid) == SelectSeq(nutrient_measurements, LAMBDA m : m.cycle_id = cid)

NoResult == calculate_nutrient_loss(0, 0, NoLevels, "", 0)

\* a caller that applies calculate_nutrient_loss to the events one by one:
\* the events applied so far, the levels it carries, the results it kept
NoReplay == [ok |-> TRUE, i |-> 0, current |-> NoLevels, events |-> <<>>]

NoCalc ==
    [mode |-> "", rainfall_mm |-> 0, duration_hours |-> 0,
     current |-> NoLevels, slope_degrees |-> 0,
     sand_pct |-> 0, silt_pct |-> 0, clay_pct |-> 0,
     by_soil |-> [s \in SoilTypes |-> NoResult], detailed |-> NoResult,
     status |-> check_nutrient_status(NoLevels),
     events |-> <<>>, soil_type |-> "",
     cumulative |-> calculate_cumulative_loss(<<>>, NoLevels, ""),
     replay |-> NoReplay, rerun |-> <<>>]

\* check_all_active_cycles: the cycles get_active_cycles returned, the
\* cycle ids passed to check_and_process_rainfall so far, the list results,
\* and whether the job has returned
NoTick == [cycles |-> <<>>, passed |-> <<>>, results |-> <<>>, done |-> FALSE]

\* lines 119-131: the entry appended to results for a call that returned r or
\* raised (r.tag = "exception")
ResultEntry(cycle_id, r) ==
    [cycle_id |-> cycle_id,
     error |-> r.tag = "exception",
     rainfall_detected |-> r.tag = "RainfallApplied"]

Init ==
    /\ crop_cycles = <<>>
    /\ rainfall_events = <<>>
    /\ nutrient_measurements = <<>>
    /\ soil_test_recommendations = <<>>
    /\ today = 0
    /\ hour = 0
    /\ reading \in Rain
    /\ pc = [p \in Procs |-> IF p = "sched" THEN "stopped" ELSE "idle"]
    /\ loc = [p \in Procs |-> NoLoc]
    /\ result = [p \in Workers |-> Res("")]
    /\ mon = [is_running |-> FALSE, active_cycles |-> <<>>,
              cycles_to_complete |-> <<>>, i |-> 0, boot |-> FALSE, since |-> 0,
              threads |-> <<>>, jobs |-> 0, switches |-> 0]
    /\ calls = 0
    /\ obs = <<>>
    /\ fired_due = {}
    /\ invoked = {}
    /\ calc = NoCalc
    /\ tick = NoTick

(***************************************************************************)
(* Returning from a manager call                                           *)
(***************************************************************************)
\* WeatherMonitor.check_all_active_cycles: the for loop over list moves to
\* the cycle after the i-th, or the job ends; at the start of the thread the
\* sweep follows it.  t is the job so far
TickLoopFrom(list, i, t) ==
    IF i < Len(list)
    THEN /\ mon' = [mon EXCEPT !.active_cycles = list, !.i = i + 1]
         /\ pc' = [pc EXCEPT !["sched"] = "check_read"]
         /\ loc' = [loc EXCEPT !["sched"] = [NoLoc EXCEPT !.cid = list[i + 1]]]
         /\ tick' = [t EXCEPT !.passed = Append(@, list[i + 1])]
    ELSE /\ mon' = [mon EXCEPT !.i = 0, !.active_cycles = <<>>]
         /\ pc' = [pc EXCEPT !["sched"] = IF mon.boot THEN "sweep_query" ELSE "sleep"]
         /\ loc' = [loc EXCEPT !["sched"] = NoLoc]
         /\ tick' = [t EXCEPT !.done = TRUE]

\* WeatherMonitor.check_and_complete_cycles: the for loop over list moves to
\* the cycle after the i-th, or the job ends; in the loop the rainfall job
\* runs after it
SweepLoopFrom(list, i) ==
    IF i < Len(list)
    THEN /\ mon' = [mon EXCEPT !.cycles_to_complete = list, !.i = i + 1]
         /\ pc' = [pc EXCEPT !["sched"] = "complete_read"]
         /\ loc' = [loc EXCEPT !["sched"] = [NoLoc EXCEPT !.cid = list[i + 1]]]
         /\ invoked' = invoked \cup {list[i + 1]}
    ELSE /\ mon' = [mon EXCEPT !.i = 0, !.cycles_to_complete = <<>>, !.boot = FALSE]
         /\ pc' = [pc EXCEPT !["sched"] = IF mon.boot THEN "sleep" ELSE "enum"]
         /\ loc' = [loc EXCEPT !["sched"] = NoLoc]
         /\ invoked' = invoked

\* Return with the try/except of lines 106-131 around the for loop, not in
\* it: an exception of one call ends the rainfall job
Return_abort(p, r) ==
    IF p \in Workers
    THEN /\ result' = [result EXCEPT ![p] = r]
         /\ pc' = [pc EXCEPT ![p] = "idle"]
         /\ loc' = [loc EXCEPT ![p] = NoLoc]
         /\ UNCHANGED <<mon, invoked, tick>>
    ELSE /\ result' = result
         /\ IF pc[p] \in {"check_read", "check_touch", "check_apply"}
            THEN /\ TickLoopFrom(mon.active_cycles,
                                 IF r.tag = "exception"
                                 THEN Len(mon.active_cycles) ELSE mon.i,
                                 [tick EXCEPT !.results =
                                     Append(@, ResultEntry(loc[p].cid, r))])
                 /\ UNCHANGED invoked
            ELSE /\ SweepLoopFrom(mon.cycles_to_complete, mon.i)
                 /\ UNCHANGED tick

\* the call of thread p returns r (or raises, r.tag = "exception"): a route
\* answers the request; the monitor's try/except appends to results and goes
\* on with its loop
Return(p, r) ==
    IF p \in Workers
    THEN /\ result' = [result EXCEPT ![p] = r]
         /\ pc' = [pc EXCEPT ![p] = "idle"]
         /\ loc' = [loc EXCEPT ![p] = NoLoc]
         /\ UNCHANGED <<mon, invoked, tick>>
    ELSE /\ result' = result
         /\ IF pc[p] \in {"check_read", "check_touch", "check_apply"}
            THEN /\ TickLoopFrom(mon.active_cycles, mon.i,
                                 [tick EXCEPT !.results =
                                     Append(@, ResultEntry(loc[p].cid, r))])
                 /\ UNCHANGED invoked
            ELSE /\ SweepLoopFrom(mon.cycles_to_complete, mon.i)
                 /\ UNCHANGED tick

(***************************************************************************)
(* RINDMCycleManager.start_new_cycle, from POST /api/rindm/start-cycle     *)
(***************************************************************************)
NextCycleNumber(farmer_id) ==
    LET nums == {crop_cycles[c].cycle_number :
                    c \in {d \in CycleIds : crop_cycles[d].farmer_id = farmer_id}}
    IN  IF nums = {} THEN 1
        ELSE (CHOOSE m \in nums : \A k \in nums : k <= m) + 1

StartsInFlight == Cardinality({q \in Procs : pc[q] = "start_insert"})

StartCycle(p, req) ==
    /\ p \in Workers
    /\ pc[p] = "idle"
    /\ calls < MaxCalls
    /\ calls' = calls + 1
    /\ IF get_crop_nutrient_uptake(req.crop).cycle_days = Null
       THEN /\ result' = [result EXCEPT ![p] = Res("UnknownCrop")]
            /\ UNCHANGED <<pc, loc>>
       ELSE /\ Len(crop_cycles) + StartsInFlight < MaxCycles
            /\ pc' = [pc EXCEPT ![p] = "start_insert"]
            /\ loc' = [loc EXCEPT ![p] =
                          [NoLoc EXCEPT !.req = req,
                                        !.cycle_number = NextCycleNumber(req.farmer_id)]]
            /\ result' = [result EXCEPT ![p] = Res("")]
    /\ UNCHANGED <<tick, store, today, calc, hour, reading, mon, fired_due, invoked>>

\* lines 96-163.  created_at is the column of crop_cycles that the history
\* route orders by; the INSERT leaves it to the table's default, the time of
\* the insert.  The totals and the event count are not set either: the
\* UPDATE of process_rainfall_event reads them with COALESCE(.., 0)
StartInsert(p) ==
    /\ pc[p] = "start_insert"
    /\ LET req == loc[p].req
           crop_data == get_crop_nutrient_uptake(req.crop)
           cycle_id == Len(crop_cycles) + 1
           row == [cycle_id |-> cycle_id,
                   farmer_id |-> req.farmer_id,
                   field_id |-> req.farmer_id,
                   cycle_number |-> loc[p].cycle_number,
                   crop_name |-> req.crop,
                   start_date |-> today,
                   expected_end_date |-> today + crop_data.cycle_days,
                   actual_end_date |-> Null,
                   status |-> "active",
                   initial |-> req.levels,
                   current |-> req.levels,
                   final |-> NoLevels,
                   soil_type |-> req.soil_type,
                   uptake |-> crop_data.uptake,
                   total_rainfall_loss |-> [n \in Nutrients |-> 0],
                   rainfall_event_count |-> 0,
                   last_weather_check |-> hour,
                   created_at |-> hour]
       IN  /\ crop_cycles' = Append(crop_cycles, row)
           /\ nutrient_measurements' =
                 Append(nutrient_measurements,
                        [cycle_id |-> cycle_id, measurement_type |-> "cycle_start",
                         levels |-> req.levels, below_threshold |-> FALSE])
    /\ Return(p, Res("started"))
    /\ UNCHANGED <<rainfall_events, soil_test_recommendations, obs, today, calc,
                   hour, reading, calls, fired_due>>

(***************************************************************************)
(* RINDMCycleManager.check_and_process_rainfall                            *)
(***************************************************************************)
\* POST /api/rindm/check-weather/<cycle_id>, after the ownership check
ManualWeatherCheck(p, cid) ==
    /\ p \in Workers
    /\ pc[p] = "idle"
    /\ calls < MaxCalls
    /\ cid \in CycleIds
    /\ calls' = calls + 1
    /\ pc' = [pc EXCEPT ![p] = "check_read"]
    /\ loc' = [loc EXCEPT ![p] = [NoLoc EXCEPT !.cid = cid]]
    /\ result' = [result EXCEPT ![p] = Res("")]
    /\ UNCHANGED <<tick, store, today, calc, hour, reading, mon, fired_due, invoked>>

AppliesInFlight(cid) ==
    Cardinality({q \in Procs : pc[q] = "check_apply" /\ loc[q].cid = cid})

\* NoRainfall with the comparison of line 222 strict: if rainfall_mm < 0
NoRainfall_strict(rainfall_mm) == rainfall_mm < 0

\* line 222: if rainfall_mm <= 0
NoRainfall(rainfall_mm) == rainfall_mm <= 0

\* lines 177-222: the SELECT of the active cycle, the coordinates, the weather
\* call (the API's reading, or the mock's random one when the API gave None)
CheckReadWith(p, R) ==
    /\ pc[p] = "check_read"
    /\ LET cid == loc[p].cid
           cycle == crop_cycles[cid]
       IN  IF cycle.status # "active"
           THEN Return(p, Res("CycleNotActive"))
           ELSE IF cycle.field_id \notin FieldsWithCoords
           THEN Return(p, Res("NoLocation"))
           ELSE \E src \in {"api", "mock"}, rainfall_mm \in R :
                   /\ src = "api" => rainfall_mm = reading
                   /\ rainfall_mm > 0 =>
                         cycle.rainfall_event_count + AppliesInFlight(cid) < MaxEvents
                   /\ loc' = [loc EXCEPT ![p].snap = cycle,
                                         ![p].rainfall_mm = rainfall_mm,
                                         ![p].src = src]
                   /\ pc' = [pc EXCEPT ![p] =
                                IF NoRainfall(rainfall_mm)
                                THEN "check_touch" ELSE "check_apply"]
                   /\ UNCHANGED <<result, mon, invoked, tick>>
    /\ UNCHANGED <<store, today, calc, hour, reading, calls, fired_due>>

CheckRead(p) == CheckReadWith(p, Rain)

\* lines 222-250: no rainfall, just update check time
CheckTouch(p) ==
    /\ pc[p] = "check_touch"
    /\ crop_cycles' = [crop_cycles EXCEPT ![loc[p].cid].last_weather_check = hour]
    /\ Return(p, Res("NoRainfall"))
    /\ UNCHANGED <<rainfall_events, nutrient_measurements, soil_test_recommendations,
                   obs, today, calc, hour, reading, calls, fired_due>>

\* UpdateCycle with the totals assigned, not accumulated:
\* total_rainfall_loss_n = %s
UpdateCycle_assigned(row, new, loss, now) ==
    [row EXCEPT !.current = new,
                !.total_rainfall_loss = loss,
                !.rainfall_event_count = @ + 1,
                !.last_weather_check = now]

\* the UPDATE crop_cycles of process_rainfall_event, lines 343-358
\* the UPDATE without rainfall_event_count = COALESCE(rainfall_event_count,
\* 0) + 1
UpdateCycle_uncounted(row, new, loss, now) ==
    [row EXCEPT !.current = new,
                !.total_rainfall_loss = [n \in Nutrients |-> @[n] + loss[n]],
                !.last_weather_check = now]

UpdateCycle(row, new, loss, now) ==
    [row EXCEPT !.current = new,
                !.total_rainfall_loss = [n \in Nutrients |-> @[n] + loss[n]],
                !.rainfall_event_count = @ + 1,
                !.last_weather_check = now]

\* the statements of the with block, lines 322-395: the INSERT into
\* rainfall_events, the UPDATE of crop_cycles, the INSERT into
\* nutrient_measurements and, if status['needs_soil_test'], the SELECT of
\* farmer_id with the INSERT into soil_test_recommendations
RainfallStatementNames(new) ==
    IF needs_soil_test(new)
    THEN <<"rainfall_events", "crop_cycles", "nutrient_measurements",
           "soil_test_recommendations">>
    ELSE <<"rainfall_events", "crop_cycles", "nutrient_measurements">>

\* the tables t after the first done statements of the with block
RainfallStatements(t, done, cid, event, observed, new, loss, now) ==
    LET t1 == IF done >= 1
              THEN [t EXCEPT !.rainfall_events = Append(@, event),
                             !.obs = Append(@, observed)]
              ELSE t
        t2 == IF done >= 2
              THEN [t1 EXCEPT !.crop_cycles[cid] = UpdateCycle(@, new, loss, now)]
              ELSE t1
        t3 == IF done >= 3
              THEN [t2 EXCEPT !.nutrient_measurements =
                       Append(@, [cycle_id |-> cid,
                                  measurement_type |-> "rainfall_update",
                                  levels |-> new,
                                  below_threshold |-> needs_soil_test(new)])]
              ELSE t2
    IN  IF done >= 4 /\ needs_soil_test(new)
        THEN [t3 EXCEPT !.soil_test_recommendations =
                 Append(@, [cycle_id |-> cid,
                            farmer_id |-> t3.crop_cycles[cid].farmer_id,
                            levels |-> new, status |-> "pending"])]
        ELSE t3

\* process_rainfall_event, called with the levels read by CheckRead: the
\* calculation, then one transaction, of which a statement or the commit may
\* raise after done statements.  loss_result and t are computed once
ProcessRainfallEvent(p) ==
    /\ pc[p] = "check_apply"
    /\ \E loss_result \in {calculate_nutrient_loss(loc[p].rainfall_mm, DEFAULT_DURATION,
                                                   loc[p].snap.current,
                                                   loc[p].snap.soil_type, DEFAULT_SLOPE)} :
       LET cid == loc[p].cid
           snap == loc[p].snap
           rainfall_mm == loc[p].rainfall_mm
           new == loss_result.remaining
           names == RainfallStatementNames(new)
           event == [cycle_id |-> cid, event_start |-> hour,
                     rainfall_mm |-> rainfall_mm,
                     duration_hours |-> DEFAULT_DURATION,
                     before |-> snap.current,
                     loss |-> loss_result.loss,
                     after |-> new]
       IN  IF ~loss_result.ok
           THEN /\ Return(p, Raised("ValueError"))
                /\ UNCHANGED store
           ELSE \E raised \in BOOLEAN, done \in 0 .. Len(names) :
                   /\ ~raised => done = Len(names)
                   /\ \E t \in {get_connection(
                                   Tables,
                                   RainfallStatements(Tables, done, cid, event,
                                                      [hour |-> hour, src |-> loc[p].src],
                                                      new, loss_result.loss, hour),
                                   raised)} :
                          /\ crop_cycles' = t.crop_cycles
                          /\ rainfall_events' = t.rainfall_events
                          /\ nutrient_measurements' = t.nutrient_measurements
                          /\ soil_test_recommendations' = t.soil_test_recommendations
                          /\ obs' = t.obs
                   /\ Return(p, IF ~raised THEN Res("RainfallApplied")
                                ELSE IF done < Len(names) THEN Raised(names[done + 1])
                                ELSE Raised("commit"))
    /\ UNCHANGED <<today, calc, hour, reading, calls, fired_due>>

(***************************************************************************)
(* RINDMCycleManager.complete_cycle                                        *)
(***************************************************************************)
\* POST /api/rindm/complete-cycle/<cycle_id>, after the ownership check
ManualComplete(p, cid) ==
    /\ p \in Workers
    /\ pc[p] = "idle"
    /\ calls < MaxCalls
    /\ cid \in CycleIds
    /\ calls' = calls + 1
    /\ pc' = [pc EXCEPT ![p] = "complete_read"]
    /\ loc' = [loc EXCEPT ![p] = [NoLoc EXCEPT !.cid = cid]]
    /\ result' = [result EXCEPT ![p] = Res("")]
    /\ UNCHANGED <<tick, store, today, calc, hour, reading, mon, fired_due, invoked>>

\* lines 447-457: SELECT * FROM crop_cycles WHERE cycle_id = %s
CompleteRead(p) ==
    /\ pc[p] = "complete_read"
    /\ loc' = [loc EXCEPT ![p].snap = crop_cycles[loc[p].cid]]
    /\ pc' = [pc EXCEPT ![p] = "complete_write"]
    /\ UNCHANGED <<tick, store, today, calc, hour, reading, result, mon, calls,
                   fired_due, invoked>>

FinalLevels(cycle) == [n \in Nutrients |-> Max(0, cycle.current[n] - cycle.uptake[n])]

BelowThreshold(final) == \E n \in Nutrients : final[n] < CRITICAL_THRESHOLDS[n]

\* lines 459-524: the final levels, the UPDATE and the cycle_end measurement
CompleteWrite(p) ==
    /\ pc[p] = "complete_write"
    /\ LET cid == loc[p].cid
           final == FinalLevels(loc[p].snap)
           below_threshold == BelowThreshold(final)
       IN  /\ crop_cycles' = [crop_cycles EXCEPT ![cid].status = "completed",
                                                 ![cid].actual_end_date = today,
                                                 ![cid].final = final]
           /\ nutrient_measurements' =
                 Append(nutrient_measurements,
                        [cycle_id |-> cid, measurement_type |-> "cycle_end",
                         levels |-> final, below_threshold |-> below_threshold])
           /\ Return(p, [Res("completed") EXCEPT !.below_threshold = below_threshold,
                                                !.can_continue = ~below_threshold])
    /\ UNCHANGED <<rainfall_events, soil_test_recommendations, obs, today, calc,
                   hour, reading, calls, fired_due>>

(***************************************************************************)
(* WeatherMonitor: the thread of run_scheduled_checks                      *)
(***************************************************************************)
ActiveIds == {c \in CycleIds : crop_cycles[c].status = "active"}

\* DueIds with the comparison of the query strict:
\* expected_end_date < CURRENT_DATE
DueIds_strict == {c \in ActiveIds : crop_cycles[c].expected_end_date < today}

\* WHERE status = 'active' AND expected_end_date <= CURRENT_DATE
DueIds == {c \in ActiveIds : crop_cycles[c].expected_end_date <= today}

\* the cycles a completion sweep is there for
DueNow ==
    {c \in CycleIds : /\ crop_cycles[c].status = "active"
                      /\ crop_cycles[c].expected_end_date <= today}

Orderings(S) ==
    {s \in [1..Cardinality(S) -> S] : \A i, j \in DOMAIN s : i # j => s[i] # s[j]}

\* ORDER BY cc.last_weather_check DESC
ByLastCheck_descending(s) ==
    \A i, j \in DOMAIN s :
        i < j => crop_cycles[s[i]].last_weather_check >= crop_cycles[s[j]].last_weather_check

\* ORDER BY cc.last_weather_check ASC
ByLastCheck(s) ==
    \A i, j \in DOMAIN s :
        i < j => crop_cycles[s[i]].last_weather_check <= crop_cycles[s[j]].last_weather_check

\* start(), lines 231-243: is_running is set and the thread is started
MonitorStart ==
    /\ pc["sched"] = "stopped"
    /\ ~mon.is_running
    /\ mon' = [mon EXCEPT !.is_running = TRUE, !.boot = TRUE, !.since = 0]
    /\ pc' = [pc EXCEPT !["sched"] = "boot"]
    /\ UNCHANGED <<store, today, calc, hour, reading, loc, result, calls,
                   fired_due, invoked, tick>>

\* run_scheduled_checks, lines 202-220: the jobs are registered and the
\* thread begins with one rainfall job and one sweep; is_running is not read
BootTick ==
    /\ pc["sched"] = "boot"
    /\ pc' = [pc EXCEPT !["sched"] = "enum"]
    /\ fired_due' = DueNow
    /\ invoked' = {}
    /\ tick' = NoTick
    /\ UNCHANGED <<store, today, calc, hour, reading, loc, result, calls, mon>>

\* get_active_cycles and the head of check_all_active_cycles
GetActiveCycles ==
    /\ pc["sched"] = "enum"
    /\ \E s \in Orderings(ActiveIds) :
          /\ ByLastCheck(s)
          /\ TickLoopFrom(s, 0, [NoTick EXCEPT !.cycles = s])
    /\ UNCHANGED <<store, today, calc, hour, reading, result, calls, fired_due, invoked>>

\* the SELECT of check_and_complete_cycles; it has no ORDER BY
SweepQuery ==
    /\ pc["sched"] = "sweep_query"
    /\ \E s \in Orderings(DueIds) : SweepLoopFrom(s, 0)
    /\ UNCHANGED <<tick, store, today, calc, hour, reading, result, calls, fired_due>>

\* while self.is_running: schedule.run_pending(); time.sleep(60).  An hour
\* has passed and the rainfall job is due; every SweepEvery-th time the
\* sweep is due as well and, scheduled for the earlier instant, runs first
FireWith(R, ticks) ==
    /\ pc["sched"] = "sleep"
    /\ mon.is_running
    /\ hour < ticks
    /\ hour' = hour + 1
    /\ reading' \in R
    /\ IF mon.since + 1 >= SweepEvery
       THEN /\ mon' = [mon EXCEPT !.since = 0]
            /\ pc' = [pc EXCEPT !["sched"] = "sweep_query"]
       ELSE /\ mon' = [mon EXCEPT !.since = @ + 1]
            /\ pc' = [pc EXCEPT !["sched"] = "enum"]
    /\ fired_due' = DueNow
    /\ invoked' = {}
    /\ tick' = NoTick
    /\ UNCHANGED <<store, today, calc, loc, result, calls>>

Fire == FireWith(Rain, MaxTicks)

(***************************************************************************)
(* DatabaseManager.get_connection: connecting or a statement raises, the   *)
(* transaction is rolled back and the exception reaches the caller; the    *)
(* transaction of process_rainfall_event is followed statement by          *)
(* statement in ProcessRainfallEvent                                       *)
(***************************************************************************)
DbError(p) ==
    /\ \/ /\ pc[p] \in {"start_insert", "check_read", "check_touch",
                        "complete_read", "complete_write"}
          /\ Return(p, Res("exception"))
       \/ /\ pc[p] \in {"enum", "sweep_query"}
          /\ pc' = [pc EXCEPT ![p] = "dead"]
          /\ UNCHANGED <<loc, result, mon, invoked, tick>>
    /\ UNCHANGED <<store, today, calc, hour, reading, calls, fired_due>>

(***************************************************************************)
(* The calendar                                                            *)
(***************************************************************************)
AdvanceDay ==
    /\ today + DayStep <= MaxDay
    /\ today' = today + DayStep
    /\ UNCHANGED <<tick, store, hour, reading, pc, loc, result, mon, calls,
                   fired_due, invoked, calc>>

Next ==
    \/ \E p \in Serving, req \in StartInputs : StartCycle(p, req)
    \/ \E p \in Serving : StartInsert(p)
    \/ \E p \in Serving, cid \in CycleIds : ManualWeatherCheck(p, cid)
    \/ \E p \in Serving, cid \in CycleIds : ManualComplete(p, cid)
    \/ \E p \in Serving \cup {"sched"} : CheckRead(p)
    \/ \E p \in Serving \cup {"sched"} : CheckTouch(p)
    \/ \E p \in Serving \cup {"sched"} : ProcessRainfallEvent(p)
    \/ \E p \in Serving \cup {"sched"} : CompleteRead(p)
    \/ \E p \in Serving \cup {"sched"} : CompleteWrite(p)
    \/ MonitorStart
    \/ BootTick
    \/ GetActiveCycles
    \/ SweepQuery
    \/ Fire
    \/ \E p \in Serving \cup {"sched"} : DbError(p)
    \/ AdvanceDay

Spec == Init /\ [][Next]_vars

(***************************************************************************)
(* The same system with GET /api/rindm/cycle-status/<cycle_id> served      *)
(***************************************************************************)
\* get_cycle_status that stamps the check time of the cycle it reads
GetCycleStatus_touch(p, cid) ==
    /\ p \in Workers
    /\ pc[p] = "idle"
    /\ cid \in CycleIds
    /\ result' = [result EXCEPT ![p] = Res("CycleStatus")]
    /\ crop_cycles' = [crop_cycles EXCEPT ![cid].last_weather_check = hour]
    /\ UNCHANGED <<rainfall_events, nutrient_measurements, soil_test_recommendations,
                   obs, tick, today, calc, hour, reading, pc, loc, mon, calls,
                   fired_due, invoked>>

\* get_cycle_status, lines 526-625: one transaction of three SELECTs (the
\* cycle, its last measurements, its rainfall events), check_nutrient_status
\* of the current levels, and the dictionary returned
GetCycleStatus(p, cid) ==
    /\ p \in Workers
    /\ pc[p] = "idle"
    /\ cid \in CycleIds
    /\ result' = [result EXCEPT ![p] = Res("CycleStatus")]
    /\ UNCHANGED <<tick, store, today, calc, hour, reading, pc, loc, mon, calls,
                   fired_due, invoked>>

NextStatus ==
    \/ Next
    \/ \E p \in Serving, cid \in CycleIds : GetCycleStatus(p, cid)

SpecStatus == Init /\ [][NextStatus]_vars

(***************************************************************************)
(* The same system where no rain falls: the weather API and the mock       *)
(* report 0 mm, so that the monitor can be followed over more wake-ups     *)
(***************************************************************************)
Dry == {0}

CheckReadDry(p) == CheckReadWith(p, Dry)

FireDry == FireWith(Dry, MaxDryTicks)

InitDry == Init /\ reading \in Dry

NextDry ==
    \/ \E p \in Serving, req \in StartInputs : StartCycle(p, req)
    \/ \E p \in Serving : StartInsert(p)
    \/ \E p \in Serving, cid \in CycleIds : ManualWeatherCheck(p, cid)
    \/ \E p \in Serving, cid \in CycleIds : ManualComplete(p, cid)
    \/ \E p \in Serving \cup {"sched"} : CheckReadDry(p)
    \/ \E p \in Serving \cup {"sched"} : CheckTouch(p)
    \/ \E p \in Serving \cup {"sched"} : CompleteRead(p)
    \/ \E p \in Serving \cup {"sched"} : CompleteWrite(p)
    \/ MonitorStart
    \/ BootTick
    \/ GetActiveCycles
    \/ SweepQuery
    \/ FireDry
    \/ \E p \in Serving \cup {"sched"} : DbError(p)
    \/ AdvanceDay

SpecDry == InitDry /\ [][NextDry]_vars

(***************************************************************************)
(* The monitor started and stopped: start() and stop() of WeatherMonitor,  *)
(* as start_monitor/stop_monitor and the standalone service call them,     *)
(* where no rain falls                                                     *)
(***************************************************************************)
\* stop(), lines 245-257: is_running is cleared; the caller then waits up to
\* 5 seconds for the thread
MonitorStop ==
    /\ mon.is_running
    /\ mon' = [mon EXCEPT !.is_running = FALSE]
    /\ UNCHANGED <<store, today, calc, hour, reading, pc, loc, result, calls,
                   fired_due, invoked, tick>>

\* line 223: while self.is_running, read as false between two wake-ups
LoopExit ==
    /\ pc["sched"] = "sleep"
    /\ ~mon.is_running
    /\ pc' = [pc EXCEPT !["sched"] = "exited"]
    /\ UNCHANGED <<store, today, calc, hour, reading, loc, result, mon, calls,
                   fired_due, invoked, tick>>

NextStop ==
    \/ NextDry
    \/ MonitorStop
    \/ LoopExit

SpecStop == InitDry /\ [][NextStop]_vars

(***************************************************************************)
(* start() and stop() called one after the other on the one WeatherMonitor *)
(* while no cycle exists, so that the jobs find nothing to do.             *)
(* mon.threads holds the position of every thread start() has created, in  *)
(* run_scheduled_checks; mon.jobs is the number of copies of each periodic *)
(* job in the job list of the schedule module; mon.switches counts the     *)
(* calls made.                                                             *)
(***************************************************************************)
\* start(): returns at once when is_running is set; else sets it and starts
\* a thread on run_scheduled_checks
StartCall ==
    /\ mon.switches < MaxSwitches
    /\ mon' = IF mon.is_running
              THEN [mon EXCEPT !.switches = @ + 1]
              ELSE [mon EXCEPT !.switches = @ + 1,
                               !.is_running = TRUE,
                               !.threads = Append(@, "schedule")]
    /\ UNCHANGED <<store, today, calc, hour, reading, pc, loc, result, calls,
                   fired_due, invoked, tick>>

\* stop(): returns at once when is_running is not set; else clears it and
\* joins the last thread for at most 5 seconds, shorter than the loop's sleep
\* of 60, so that it returns whether or not the thread has ended
StopCall ==
    /\ mon.switches < MaxSwitches
    /\ mon' = IF mon.is_running
              THEN [mon EXCEPT !.switches = @ + 1, !.is_running = FALSE]
              ELSE [mon EXCEPT !.switches = @ + 1]
    /\ UNCHANGED <<store, today, calc, hour, reading, pc, loc, result, calls,
                   fired_due, invoked, tick>>

\* lines 215-216: the two schedule.every(..).do(..) of thread i
LoopSchedule(i) ==
    /\ mon.threads[i] = "schedule"
    /\ mon' = [mon EXCEPT !.jobs = @ + 1, !.threads[i] = "run_now"]
    /\ UNCHANGED <<store, today, calc, hour, reading, pc, loc, result, calls,
                   fired_due, invoked, tick>>

\* lines 219-220: both jobs run at once; no cycle exists, nothing is written
LoopRunNow(i) ==
    /\ mon.threads[i] = "run_now"
    /\ crop_cycles = <<>>
    /\ mon' = [mon EXCEPT !.threads[i] = "test"]
    /\ UNCHANGED <<store, today, calc, hour, reading, pc, loc, result, calls,
                   fired_due, invoked, tick>>

\* lines 223-225: while self.is_running: schedule.run_pending();
\* time.sleep(60); the thread ends when it finds is_running cleared
LoopTest(i) ==
    /\ mon.threads[i] = "test"
    /\ crop_cycles = <<>>
    /\ mon' = [mon EXCEPT !.threads[i] = IF mon.is_running THEN "sleep" ELSE "ended"]
    /\ UNCHANGED <<store, today, calc, hour, reading, pc, loc, result, calls,
                   fired_due, invoked, tick>>

\* time.sleep(60) returns
LoopWake(i) ==
    /\ mon.threads[i] = "sleep"
    /\ mon' = [mon EXCEPT !.threads[i] = "test"]
    /\ UNCHANGED <<store, today, calc, hour, reading, pc, loc, result, calls,
                   fired_due, invoked, tick>>

NextRestart ==
    \/ StartCall
    \/ StopCall
    \/ \E i \in 1..Len(mon.threads) : LoopSchedule(i)
    \/ \E i \in 1..Len(mon.threads) : LoopRunNow(i)
    \/ \E i \in 1..Len(mon.threads) : LoopTest(i)
    \/ \E i \in 1..Len(mon.threads) : LoopWake(i)

SpecRestart == InitDry /\ [][NextRestart]_vars

(***************************************************************************)
(* The monitor left running for good while the days pass, where no rain    *)
(* falls: the thread takes its steps, the calendar reaches day             *)
(* LiveDays * DayStep, and the statements of a completion do not fail      *)
(* every time they are tried                                               *)
(***************************************************************************)
\* start_new_cycle, for the cycles that end within the days followed
StartInsertLive(p) ==
    /\ pc[p] = "start_insert"
    /\ today + get_crop_nutrient_uptake(loc[p].req.crop).cycle_days
          <= LiveDays * DayStep
    /\ StartInsert(p)

\* the wake-up of FireWith, any number of times; timestamps after the
\* LiveTicks-th wake-up are not told apart
FireLive ==
    /\ pc["sched"] = "sleep"
    /\ mon.is_running
    /\ hour' = IF hour < LiveTicks THEN hour + 1 ELSE hour
    /\ reading' \in Dry
    /\ IF mon.since + 1 >= SweepEvery
       THEN /\ mon' = [mon EXCEPT !.since = 0]
            /\ pc' = [pc EXCEPT !["sched"] = "sweep_query"]
       ELSE /\ mon' = [mon EXCEPT !.since = @ + 1]
            /\ pc' = [pc EXCEPT !["sched"] = "enum"]
    /\ fired_due' = DueNow
    /\ invoked' = {}
    /\ tick' = NoTick
    /\ UNCHANGED <<store, today, calc, loc, result, calls>>

AdvanceDayLive ==
    /\ today + DayStep <= LiveDays * DayStep
    /\ today' = today + DayStep
    /\ UNCHANGED <<store, hour, reading, pc, loc, result, mon, calls,
                   fired_due, invoked, calc, tick>>

NextLive ==
    \/ \E p \in Serving, req \in StartInputs : StartCycle(p, req)
    \/ \E p \in Serving : StartInsertLive(p)
    \/ CheckReadDry("sched")
    \/ CheckTouch("sched")
    \/ CompleteRead("sched")
    \/ CompleteWrite("sched")
    \/ MonitorStart
    \/ BootTick
    \/ GetActiveCycles
    \/ SweepQuery
    \/ FireLive
    \/ \E p \in Serving \cup {"sched"} : DbError(p)
    \/ AdvanceDayLive

SpecLive ==
    /\ InitDry
    /\ [][NextLive]_vars
    /\ WF_vars(MonitorStart)
    /\ WF_vars(BootTick)
    /\ WF_vars(GetActiveCycles)
    /\ WF_vars(SweepQuery)
    /\ WF_vars(FireLive)
    /\ WF_vars(AdvanceDayLive)
    /\ WF_vars(CheckReadDry("sched"))
    /\ WF_vars(CheckTouch("sched"))
    /\ SF_vars(CompleteRead("sched"))
    /\ SF_vars(CompleteWrite("sched"))

(***************************************************************************)
(* Two request threads starting and completing cycles at the same time,    *)
(* without the monitor                                                     *)
(***************************************************************************)
NextStart ==
    \/ \E p \in Workers, req \in StartInputs : StartCycle(p, req)
    \/ \E p \in Workers : StartInsert(p)
    \/ \E p \in Workers, cid \in CycleIds : ManualComplete(p, cid)
    \/ \E p \in Workers : CompleteRead(p)
    \/ \E p \in Workers : CompleteWrite(p)
    \/ \E p \in Workers : DbError(p)
    \/ AdvanceDay

SpecStart == InitDry /\ [][NextStart]_vars

(***************************************************************************)
(* Rainfall on cycles started with ample nutrients: requests and the       *)
(* monitor, without completions                                            *)
(***************************************************************************)
\* inputs of POST /api/rindm/start-cycle for farmer 1: levels that stay
\* MODERATE or better after two events of 50 mm, levels whose K is LOW and
\* not CRITICAL after one, and levels whose K is CRITICAL after one
AlertInputs ==
    {[farmer_id |-> 1, crop |-> "mungbean", soil_type |-> "loamy",
      levels |-> [N |-> 16000, P |-> 6000, K |-> 21000]],
     [farmer_id |-> 1, crop |-> "mungbean", soil_type |-> "loamy",
      levels |-> [N |-> 9000, P |-> 4200, K |-> 10900]],
     [farmer_id |-> 1, crop |-> "mungbean", soil_type |-> "loamy",
      levels |-> [N |-> 9000, P |-> 4200, K |-> 4300]]}

NextAlert ==
    \/ \E p \in Serving, req \in AlertInputs : StartCycle(p, req)
    \/ \E p \in Serving : StartInsert(p)
    \/ \E p \in Serving, cid \in CycleIds : ManualWeatherCheck(p, cid)
    \/ \E p \in Serving \cup {"sched"} : CheckRead(p)
    \/ \E p \in Serving \cup {"sched"} : CheckTouch(p)
    \/ \E p \in Serving \cup {"sched"} : ProcessRainfallEvent(p)
    \/ MonitorStart
    \/ BootTick
    \/ GetActiveCycles
    \/ SweepQuery
    \/ Fire

SpecAlert == Init /\ [][NextAlert]_vars

(***************************************************************************)
(* The depletion calculator called on its own, as the validation script    *)
(* evaluation_metrics/04_rindm_validation.py calls it; a behaviour is one  *)
(* call                                                                    *)
(***************************************************************************)
\* arguments tried: mm of rain, hours, hundredths of kg/ha, degrees, percent
CalcRain == {0 - 1, 0, 20, 50, 100, 300, 400}

CalcDuration == {0 - 1, 0, 1, 2, 4}

CalcLevel == {0 - 1, 0, 1, 4200, 9000}

CalcSlope == {0 - 30, 0 - 15, 0, 3, 15, 30}

CalcSandClay == {0, 10, 20, 26, 27, 30, 39, 40, 49, 50, 60, 69, 70, 80}

\* levels passed to check_nutrient_status: 0, a negative level, and each
\* cutoff of the nutrient with the values 0.01 below and above it
StatusLevelsOf(n) ==
    {0 - 500, 0} \cup
    UNION {{NUTRIENT_THRESHOLDS[b][n] - 1, NUTRIENT_THRESHOLDS[b][n],
            NUTRIENT_THRESHOLDS[b][n] + 1} : b \in DOMAIN NUTRIENT_THRESHOLDS}

\* sand_pct + silt_pct + clay_pct - 100
CalcTotalOff == {0 - 20, 0 - 2, 0 - 1, 0, 1, 2, 20}

\* calculate_nutrient_loss(rainfall_mm, duration_hours, N, P, K, soil_type =
\* s, slope_degrees), for each soil type s
CalculateBySoil(rainfall_mm, duration_hours, current, slope_degrees) ==
    /\ calc = NoCalc
    /\ calc' = [NoCalc EXCEPT
                   !.mode = "simple",
                   !.rainfall_mm = rainfall_mm,
                   !.duration_hours = duration_hours,
                   !.current = current,
                   !.slope_degrees = slope_degrees,
                   !.by_soil = [s \in SoilTypes |->
                                   calculate_nutrient_loss(rainfall_mm, duration_hours,
                                                           current, s, slope_degrees)]]
    /\ UNCHANGED <<tick, store, today, hour, reading, pc, loc, result, mon, calls,
                   fired_due, invoked>>

\* Test Case 4 of test_edge_cases: calculate_nutrient_loss(50, 2, 90, 42, 43,
\* sand_pct, silt_pct, clay_pct)
CalculateFromTexture(sand_pct, silt_pct, clay_pct) ==
    /\ calc = NoCalc
    /\ calc' = [NoCalc EXCEPT
                   !.mode = "detailed",
                   !.rainfall_mm = 50,
                   !.duration_hours = 2,
                   !.current = [N |-> 9000, P |-> 4200, K |-> 4300],
                   !.slope_degrees = DEFAULT_SLOPE,
                   !.sand_pct = sand_pct,
                   !.silt_pct = silt_pct,
                   !.clay_pct = clay_pct,
                   !.detailed = calculate_nutrient_loss_detailed(
                                    50, 2, [N |-> 9000, P |-> 4200, K |-> 4300],
                                    sand_pct, silt_pct, clay_pct, DEFAULT_SLOPE)]
    /\ UNCHANGED <<tick, store, today, hour, reading, pc, loc, result, mon, calls,
                   fired_due, invoked>>

\* check_nutrient_status(N, P, K) called on its own
CheckStatus(levels) ==
    /\ calc = NoCalc
    /\ calc' = [NoCalc EXCEPT !.mode = "status",
                              !.current = levels,
                              !.status = check_nutrient_status(levels)]
    /\ UNCHANGED <<tick, store, today, hour, reading, pc, loc, result, mon, calls,
                   fired_due, invoked>>

\* TEST 1 of the module's __main__: calculate_nutrient_loss(rainfall_mm=50,
\* duration_hours=3, N_current=90, P_current=42, K_current=43,
\* soil_type='loamy')
MainTest1 ==
    CalculateBySoil(50, 3, [N |-> 9000, P |-> 4200, K |-> 4300], DEFAULT_SLOPE)

NextCalc ==
    \/ /\ calc = NoCalc
       /\ \E rainfall_mm \in CalcRain, duration_hours \in CalcDuration,
             slope_degrees \in CalcSlope, l \in CalcLevel, m \in {0 - 1, 0, 4200},
             k \in {0 - 1, 0, 1, 4200, 9000} :
             /\ k \in {0 - 1, l}
             /\ CalculateBySoil(rainfall_mm, duration_hours,
                                [N |-> l, P |-> m, K |-> k], slope_degrees)
    \/ /\ calc = NoCalc
       /\ \E N \in StatusLevelsOf("N"), P \in StatusLevelsOf("P"),
             K \in StatusLevelsOf("K") :
             CheckStatus([N |-> N, P |-> P, K |-> K])
    \/ /\ calc = NoCalc
       /\ \E sand_pct \in CalcSandClay, clay_pct \in CalcSandClay,
             off \in CalcTotalOff :
             CalculateFromTexture(sand_pct, 100 + off - sand_pct - clay_pct, clay_pct)
    \/ MainTest1

SpecCalc == Init /\ [][NextCalc]_vars

(***************************************************************************)
(* calculate_cumulative_loss and the same events applied one at a time     *)
(***************************************************************************)
MaxFoldEvents == 3

MaxReruns == 2

\* the rainfall events of a list: refused, light and extreme rain, with a
\* duration of one hour or without a duration
FoldEvent ==
    {[rainfall_mm |-> r] : r \in {0 - 1, 20, 400}}
    \cup {[rainfall_mm |-> r, duration_hours |-> 1] : r \in {0 - 1, 20, 400}}

FoldEventLists == UNION {[1 .. n -> FoldEvent] : n \in 0 .. MaxFoldEvents}

FoldLevels == {[N |-> 9000, P |-> 4200, K |-> 4300], [N |-> 100, P |-> 0, K |-> 1]}

\* model.calculate_cumulative_loss(rainfall_events = events, initial_N,
\* initial_P, initial_K, soil_type)
CumulativeLoss(events, initial, soil_type) ==
    /\ calc = NoCalc
    /\ calc' = [NoCalc EXCEPT
                   !.mode = "cumulative",
                   !.events = events,
                   !.current = initial,
                   !.soil_type = soil_type,
                   !.cumulative = calculate_cumulative_loss(events, initial, soil_type),
                   !.replay = [NoReplay EXCEPT !.current = initial]]
    /\ UNCHANGED <<tick, store, today, hour, reading, pc, loc, result, mon, calls,
                   fired_due, invoked>>

\* the call made again with the same list and the same starting levels
CumulativeLossAgain ==
    /\ calc.mode = "cumulative"
    /\ Len(calc.rerun) < MaxReruns
    /\ calc' = [calc EXCEPT
                   !.rerun = Append(@, calculate_cumulative_loss(calc.events, calc.current,
                                                                 calc.soil_type))]
    /\ UNCHANGED <<tick, store, today, hour, reading, pc, loc, result, mon, calls,
                   fired_due, invoked>>

\* calculate_nutrient_loss applied to the next event of the list, from the
\* remaining levels of the event before it
ApplyNextEvent ==
    /\ calc.mode = "cumulative"
    /\ calc.replay.ok
    /\ calc.replay.i < Len(calc.events)
    /\ LET event == calc.events[calc.replay.i + 1]
           r == calculate_nutrient_loss(event.rainfall_mm, EventDuration(event),
                                        calc.replay.current, calc.soil_type, DEFAULT_SLOPE)
       IN  calc' = [calc EXCEPT
                       !.replay = IF ~r.ok
                                  THEN [@ EXCEPT !.ok = FALSE]
                                  ELSE [ok |-> TRUE,
                                        i |-> @.i + 1,
                                        current |-> r.remaining,
                                        events |-> Append(@.events,
                                                          EventDetail(@.i + 1, r))]]
    /\ UNCHANGED <<tick, store, today, hour, reading, pc, loc, result, mon, calls,
                   fired_due, invoked>>

NextFold ==
    \/ /\ calc = NoCalc
       /\ \E events \in FoldEventLists, initial \in FoldLevels, soil_type \in SoilTypes :
             CumulativeLoss(events, initial, soil_type)
    \/ CumulativeLossAgain
    \/ ApplyNextEvent

SpecFold == Init /\ [][NextFold]_vars

TypeOK ==
    /\ \A c \in CycleIds : crop_cycles[c].status \in {"active", "completed"}
    /\ \A p \in Procs : pc[p] \in {"idle", "stopped", "dead", "sleep", "enum", "boot", "exited",
                                   "sweep_query", "start_insert", "check_read",
                                   "check_touch", "check_apply", "complete_read",
                                   "complete_write"}

(***************************************************************************)
(* Properties                                                              *)
(***************************************************************************)

\* C1: a complete_cycle call that finds the cycle already completed does not
\* report success and leaves the cycle's row and its measurements as they are
C1_CompleteOfCompletedIsRejected ==
    [][\A p \in Procs :
          (/\ pc[p] = "complete_write"
           /\ pc'[p] # "complete_write"
           /\ loc[p].snap.status = "completed")
          => /\ crop_cycles' = crop_cycles
             /\ nutrient_measurements' = nutrient_measurements
             /\ p \in Workers => result'[p].tag # "completed"]_vars

\* C2: no two rainfall events of one cycle computed their loss from the same
\* 'before' levels
C2_NoTwoLossesFromOneBefore ==
    \A i, j \in DOMAIN rainfall_events :
        (i < j /\ rainfall_events[i].cycle_id = rainfall_events[j].cycle_id)
        => rainfall_events[i].before # rainfall_events[j].before

\* C3: the current N, P and K of every cycle are never below zero
C3_CurrentNonNegative ==
    \A c \in CycleIds : \A n \in Nutrients : crop_cycles[c].current[n] >= 0

\* C4: the current N, P and K of every cycle never exceed its initial ones
C4_CurrentAtMostInitial ==
    \A c \in CycleIds :
        \A n \in Nutrients : crop_cycles[c].current[n] <= crop_cycles[c].initial[n]

\* a cycle whose levels rainfall has brought below the initial ones
C4_Witness ==
    \E c \in CycleIds :
        /\ crop_cycles[c].rainfall_event_count >= 1
        /\ \A n \in Nutrients : crop_cycles[c].current[n] < crop_cycles[c].initial[n]

\* C5: no step lowers the cumulative rainfall loss of an active cycle, for
\* any of N, P and K
C5_TotalsNeverDecrease ==
    [][\A c \in CycleIds :
          crop_cycles[c].status = "active"
          => \A n \in Nutrients :
                crop_cycles'[c].total_rainfall_loss[n]
                    >= crop_cycles[c].total_rainfall_loss[n]]_vars

\* an active cycle whose totals hold the losses of two rainfall events
C5_Witness ==
    \E c \in CycleIds :
        /\ crop_cycles[c].status = "active"
        /\ crop_cycles[c].rainfall_event_count >= 2
        /\ \A n \in Nutrients :
              crop_cycles[c].total_rainfall_loss[n] > EventsOf(c)[1].loss[n]

\* C6: the step that ends a weather check whose API call returned no data
\* changes no table
C6_NoDataNoMutation ==
    [][\A p \in Procs :
          (/\ pc[p] \in {"check_touch", "check_apply"}
           /\ pc'[p] # pc[p]
           /\ loc[p].src = "mock")
          => /\ crop_cycles' = crop_cycles
             /\ rainfall_events' = rainfall_events
             /\ nutrient_measurements' = nutrient_measurements
             /\ soil_test_recommendations' = soil_test_recommendations]_vars

\* C7: the weather API's reading of one hour is applied to a cycle at most
\* once
C7_OneEventPerReading ==
    \A i, j \in DOMAIN rainfall_events :
        (/\ i < j
         /\ rainfall_events[i].cycle_id = rainfall_events[j].cycle_id
         /\ obs[i].src = "api"
         /\ obs[j].src = "api")
        => obs[i].hour # obs[j].hour

\* C8: the step that ends a weather check whose rainfall is <= 0 changes
\* nothing but the last_weather_check of cycles: no row is added to any
\* table and every other column of crop_cycles keeps its value
C8_NoRainOnlyTouches ==
    [][\A p \in Procs :
          (/\ pc[p] \in {"check_touch", "check_apply"}
           /\ pc'[p] # pc[p]
           /\ loc[p].rainfall_mm <= 0)
          => /\ rainfall_events' = rainfall_events
             /\ nutrient_measurements' = nutrient_measurements
             /\ soil_test_recommendations' = soil_test_recommendations
             /\ Len(crop_cycles') = Len(crop_cycles)
             /\ \A c \in CycleIds :
                   [crop_cycles'[c] EXCEPT
                       !.last_weather_check = crop_cycles[c].last_weather_check]
                   = crop_cycles[c]]_vars

\* a cycle without rainfall events whose last_weather_check a check has
\* moved past the time of its creation
C8_Witness ==
    \E c \in CycleIds :
        /\ crop_cycles[c].rainfall_event_count = 0
        /\ Len(EventsOf(c)) = 0
        /\ crop_cycles[c].last_weather_check > crop_cycles[c].created_at

\* C9: no step changes the levels, the totals, the event count or the
\* rainfall events of a completed cycle
C9_CompletedIsFrozen ==
    [][\A c \in CycleIds :
          crop_cycles[c].status = "completed"
          => /\ crop_cycles'[c].status = "completed"
             /\ crop_cycles'[c].current = crop_cycles[c].current
             /\ crop_cycles'[c].final = crop_cycles[c].final
             /\ crop_cycles'[c].total_rainfall_loss = crop_cycles[c].total_rainfall_loss
             /\ crop_cycles'[c].rainfall_event_count = crop_cycles[c].rainfall_event_count
             /\ Len(SelectSeq(rainfall_events', LAMBDA e : e.cycle_id = c))
                   = Len(EventsOf(c))]_vars

\* C10, as the specification states it: when a firing of the monitor has
\* ended, every cycle that was active and due when it began has been passed
\* to complete_cycle or is no longer active
C10_EveryFiringSweeps ==
    (pc["sched"] = "sleep" /\ mon.is_running)
    => \A c \in fired_due : c \in invoked \/ crop_cycles[c].status # "active"

\* C10: when a firing in which the sweep job ran (the start of the thread,
\* and every SweepEvery-th wake-up after it) has ended, every cycle that was
\* active and due when it began has been passed to complete_cycle or is no
\* longer active
C10_SweepFiringCompletesDue ==
    (pc["sched"] = "sleep" /\ mon.is_running /\ mon.since = 0)
    => \A c \in fired_due : c \in invoked \/ crop_cycles[c].status # "active"

\* the SweepEvery-th wake-up has ended and its sweep passed a due cycle to
\* complete_cycle
C10_Witness ==
    /\ pc["sched"] = "sleep"
    /\ mon.is_running
    /\ mon.since = 0
    /\ hour >= SweepEvery
    /\ fired_due # {}
    /\ fired_due \subseteq invoked

\* C11: if the monitor thread never dies, every cycle that has been started
\* is eventually completed
C11_EveryStartedCycleIsCompleted ==
    [](pc["sched"] # "dead")
    => \A c \in 1..MaxCycles :
          [](c \in CycleIds
             => <>(c \in CycleIds /\ crop_cycles[c].status = "completed"))

\* a cycle that the monitor's sweep passed to complete_cycle, on or after its
\* expected end date, and that is completed
C11_Witness ==
    \E c \in CycleIds :
        /\ c \in invoked
        /\ pc["sched"] = "sleep"
        /\ crop_cycles[c].status = "completed"
        /\ crop_cycles[c].actual_end_date >= crop_cycles[c].expected_end_date

\* C12: the rainfall job enumerates exactly the cycles that are active at
\* that moment, each once; it passes them to check_and_process_rainfall one
\* after the other in that order, whatever the earlier calls returned or
\* raised, and when the job has returned every enumerated cycle has been
\* passed exactly once and has one entry in results
C12_EveryEnumeratedCyclePassedOnce ==
    /\ [](/\ Len(tick.passed) <= Len(tick.cycles)
          /\ tick.passed = SubSeq(tick.cycles, 1, Len(tick.passed))
          /\ \A i, j \in DOMAIN tick.cycles : i # j => tick.cycles[i] # tick.cycles[j]
          /\ tick.done
             => /\ tick.passed = tick.cycles
                /\ Len(tick.results) = Len(tick.cycles)
                /\ \A k \in DOMAIN tick.results :
                      tick.results[k].cycle_id = tick.cycles[k])
    /\ [][(pc["sched"] = "enum" /\ pc'["sched"] # "enum" /\ pc'["sched"] # "dead")
          => {tick'.cycles[k] : k \in DOMAIN tick'.cycles} = ActiveIds]_vars

\* a rainfall job over two cycles has returned: the call for the first
\* raised, the second was passed all the same and its call returned
C12_Witness ==
    /\ tick.done
    /\ Len(tick.cycles) = 2
    /\ tick.passed = tick.cycles
    /\ Len(tick.results) = 2
    /\ tick.results[1].error
    /\ ~tick.results[2].error

\* C13: when the rainfall job's call for an active cycle without coordinates
\* ends, the entry appended to results records an error, the job goes on and
\* the cycle's row (status, levels, last_weather_check) is unchanged
C13_MissingCoordinatesRecorded ==
    [][(/\ pc["sched"] = "check_read"
        /\ crop_cycles[loc["sched"].cid].status = "active"
        /\ crop_cycles[loc["sched"].cid].field_id \notin FieldsWithCoords
        /\ Len(tick'.results) > Len(tick.results))
       => /\ tick'.results[Len(tick'.results)].error
          /\ pc'["sched"] \in {"check_read", "sleep", "sweep_query"}
          /\ crop_cycles' = crop_cycles]_vars

\* C14: once stop() has cleared is_running, the monitor thread begins no
\* rainfall job
C14_NoTickBeginsAfterStop ==
    [][~mon.is_running => ~(pc["sched"] # "enum" /\ pc'["sched"] = "enum")]_vars

\* C15: of two cycles of one farmer the one created later (the higher
\* cycle_id) has the higher cycle_number, so a farmer's cycle numbers are
\* pairwise distinct and increase in creation order
C15_CycleNumbersIncrease ==
    \A c, d \in CycleIds :
        (c < d /\ crop_cycles[c].farmer_id = crop_cycles[d].farmer_id)
        => crop_cycles[c].cycle_number < crop_cycles[d].cycle_number

\* C16: a call with rainfall_mm = 0 that the calculator accepts reports a
\* total loss of 0 for N, P and K, for every soil type
C16_ZeroRainZeroLoss ==
    (calc.mode = "simple" /\ calc.rainfall_mm = 0)
    => \A s \in SoilTypes : \A n \in Nutrients :
          calc.by_soil[s].ok => calc.by_soil[s].loss[n] = 0

\* C17: every accepted call of the calculator, by soil type or by texture,
\* reports remaining N, P and K >= 0 and a total loss of at most the level
C17_RemainingNonNegative ==
    /\ \A s \in SoilTypes : \A n \in Nutrients :
          (calc.mode = "simple" /\ calc.by_soil[s].ok)
          => /\ calc.by_soil[s].remaining[n] >= 0
             /\ calc.by_soil[s].loss[n] <= calc.current[n]
    /\ \A n \in Nutrients :
          (calc.mode = "detailed" /\ calc.detailed.ok)
          => /\ calc.detailed.remaining[n] >= 0
             /\ calc.detailed.loss[n] <= calc.current[n]

\* a call whose rain takes the whole of a positive level: the loss is the
\* level and nothing remains
C17_Witness ==
    /\ calc.mode = "simple"
    /\ \E s \in SoilTypes : \E n \in Nutrients :
          /\ calc.by_soil[s].ok
          /\ calc.current[n] > 0
          /\ calc.by_soil[s].loss[n] = calc.current[n]
          /\ calc.by_soil[s].remaining[n] = 0

\* C18: in every accepted call a nutrient whose level is 0 has a total loss
\* of 0 and a remaining level of 0
C18_NothingFromNothing ==
    \A s \in SoilTypes : \A n \in Nutrients :
        (calc.mode = "simple" /\ calc.by_soil[s].ok /\ calc.current[n] = 0)
        => /\ calc.by_soil[s].loss[n] = 0
           /\ calc.by_soil[s].remaining[n] = 0

\* a rainy call where N is 0 and loses nothing while P is positive and loses
C18_Witness ==
    /\ calc.mode = "simple"
    /\ calc.rainfall_mm > 0
    /\ calc.current["N"] = 0
    /\ calc.current["P"] > 0
    /\ \A s \in SoilTypes :
          /\ calc.by_soil[s].ok
          /\ calc.by_soil[s].loss["N"] = 0
          /\ calc.by_soil[s].loss["P"] > 0

\* C19, as the specification states it: for the same rainfall, duration and
\* levels the reported leaching loss is strictly sandy > loamy > clay and the
\* reported runoff loss strictly clay > loamy > sandy, for each nutrient
C19_StrictSoilOrdering ==
    (calc.mode = "simple" /\ \A s \in SoilTypes : calc.by_soil[s].ok)
    => \A n \in Nutrients :
          /\ calc.by_soil["sandy"].leaching_loss[n] > calc.by_soil["loamy"].leaching_loss[n]
          /\ calc.by_soil["loamy"].leaching_loss[n] > calc.by_soil["clay"].leaching_loss[n]
          /\ calc.by_soil["clay"].runoff_loss[n] > calc.by_soil["loamy"].runoff_loss[n]
          /\ calc.by_soil["loamy"].runoff_loss[n] > calc.by_soil["sandy"].runoff_loss[n]

\* C19: for the same rainfall, duration, levels and slope, the reported
\* leaching loss is ordered sandy >= loamy >= clay for each nutrient, and the
\* reported runoff loss clay >= loamy >= sandy when the slope is above -15
\* degrees (sandy >= loamy >= clay when it is not); an inequality is strict
\* when the two losses differ by more than 0.01 kg/ha before they are rounded
C19_SoilOrdering ==
    (/\ calc.mode = "simple"
     /\ \A s \in SoilTypes : calc.by_soil[s].ok)
    => \A n \in Nutrients :
          \A hi, lo \in SoilTypes :
             LET ifac == calculate_intensity_factor(calc.rainfall_mm, calc.duration_hours)
                 sfac == calculate_slope_factor(calc.slope_degrees)
                 dl == LEACHING_COEFFICIENTS[n][hi] - LEACHING_COEFFICIENTS[n][lo]
                 dr == RUNOFF_COEFFICIENTS[n][hi] - RUNOFF_COEFFICIENTS[n][lo]
             IN  /\ <<hi, lo>> \in {<<"sandy", "loamy">>, <<"loamy", "clay">>}
                    => /\ calc.by_soil[hi].leaching_loss[n]
                             >= calc.by_soil[lo].leaching_loss[n]
                       /\ calc.current[n] * dl * calc.rainfall_mm > 10000
                          => calc.by_soil[hi].leaching_loss[n]
                                > calc.by_soil[lo].leaching_loss[n]
                 /\ <<hi, lo>> \in {<<"clay", "loamy">>, <<"loamy", "sandy">>}
                    => /\ calc.slope_degrees > 0 - 15
                          => calc.by_soil[hi].runoff_loss[n]
                                >= calc.by_soil[lo].runoff_loss[n]
                       /\ calc.slope_degrees <= 0 - 15
                          => calc.by_soil[hi].runoff_loss[n]
                                <= calc.by_soil[lo].runoff_loss[n]
                       /\ calc.current[n] * dr * ifac.n * sfac.n
                             > 100 * ifac.d * sfac.d
                          => calc.by_soil[hi].runoff_loss[n]
                                > calc.by_soil[lo].runoff_loss[n]

\* the call of Test Case 5 (100 mm in 4 hours on N=90, P=42), with both
\* orderings strict for N and P
C19_Witness ==
    /\ calc.mode = "simple"
    /\ calc.rainfall_mm = 100
    /\ calc.duration_hours = 4
    /\ calc.current["N"] = 9000
    /\ calc.current["P"] = 4200
    /\ \A n \in {"N", "P"} :
          /\ calc.by_soil["sandy"].leaching_loss[n] > calc.by_soil["loamy"].leaching_loss[n]
          /\ calc.by_soil["loamy"].leaching_loss[n] > calc.by_soil["clay"].leaching_loss[n]
          /\ calc.by_soil["clay"].runoff_loss[n] > calc.by_soil["loamy"].runoff_loss[n]
          /\ calc.by_soil["loamy"].runoff_loss[n] > calc.by_soil["sandy"].runoff_loss[n]

\* C20: a call by texture whose percentages sum to 99..101 uses the class
\* clay if clay >= 40, else sandy if sand >= 50, else clay if clay >= 27,
\* else loamy, so that (80,10,10) is sandy, (30,40,30) loamy and (20,30,50)
\* clay; a call whose percentages sum to anything else is refused
C20_TextureClasses ==
    calc.mode = "detailed"
    => LET total == calc.sand_pct + calc.silt_pct + calc.clay_pct
           tex == <<calc.sand_pct, calc.silt_pct, calc.clay_pct>>
       IN  /\ (99 <= total /\ total <= 101)
              => /\ calc.detailed.ok
                 /\ calc.detailed.soil_type_used =
                       IF calc.clay_pct >= 40 THEN "clay"
                       ELSE IF calc.sand_pct >= 50 THEN "sandy"
                       ELSE IF calc.clay_pct >= 27 THEN "clay"
                       ELSE "loamy"
           /\ ~(99 <= total /\ total <= 101) => ~calc.detailed.ok
           /\ tex = <<80, 10, 10>> => calc.detailed.soil_type_used = "sandy"
           /\ tex = <<30, 40, 30>> => calc.detailed.soil_type_used = "loamy"
           /\ tex = <<20, 30, 50>> => calc.detailed.soil_type_used = "clay"

\* C22: a call of the calculator with a negative rainfall, a negative
\* duration or a negative N, P or K level is refused: it raises and returns
\* no loss and no remaining level, for every soil type
C22_NegativeInputsRefused ==
    (/\ calc.mode = "simple"
     /\ \/ calc.rainfall_mm < 0
        \/ calc.duration_hours < 0
        \/ \E n \in Nutrients : calc.current[n] < 0)
    => \A s \in SoilTypes : calc.by_soil[s] = NoResult

\* a call with a negative duration and nothing else wrong, refused
C22_Witness ==
    /\ calc.mode = "simple"
    /\ calc.duration_hours < 0
    /\ calc.rainfall_mm > 0
    /\ \A n \in Nutrients : calc.current[n] > 0
    /\ \A s \in SoilTypes : ~calc.by_soil[s].ok

\* C26: check_nutrient_status places each nutrient on its own in the band
\* CRITICAL, LOW, MODERATE, GOOD or HIGH fixed by the four cutoffs N 30 / 60 /
\* 100 / 150, P 10 / 20 / 30 / 50, K 40 / 80 / 120 / 200 kg/ha (a value
\* strictly below a cutoff is in the lower band, a value at the cutoff in the
\* upper one), and the overall status is the worst of the three bands
C26_ThresholdBanding ==
    calc.mode = "status" =>
        LET cut == [N |-> <<3000, 6000, 10000, 15000>>,
                    P |-> <<1000, 2000, 3000, 5000>>,
                    K |-> <<4000, 8000, 12000, 20000>>]
            names == <<"CRITICAL", "LOW", "MODERATE", "GOOD", "HIGH">>
            band(n) == 1 + Cardinality({i \in 1 .. 4 : calc.current[n] >= cut[n][i]})
            worst == CHOOSE b \in {band(n) : n \in Nutrients} :
                        \A n \in Nutrients : b <= band(n)
        IN  /\ \A n \in Nutrients : calc.status.level[n] = names[band(n)]
            /\ calc.status.overall_status = names[worst]

\* N exactly at its critical cutoff is LOW, P 0.01 below its critical cutoff
\* is CRITICAL, K at its high cutoff is HIGH, and the overall status is the
\* worst of the three
C26_Witness ==
    /\ calc.mode = "status"
    /\ calc.current = [N |-> 3000, P |-> 999, K |-> 20000]
    /\ calc.status.level = [N |-> "LOW", P |-> "CRITICAL", K |-> "HIGH"]
    /\ calc.status.overall_status = "CRITICAL"

C23_NeverPartiallyApplied ==
    [][\A p \in Procs :
          (/\ pc[p] = "check_apply"
           /\ IF p \in Workers
              THEN pc'[p] = "idle" /\ result'[p].tag # "RainfallApplied"
              ELSE /\ Len(tick'.results) = Len(tick.results) + 1
                   /\ ~tick'.results[Len(tick'.results)].rainfall_detected)
          => store' = store]_vars

\* the request's transaction raised at its third statement, the INSERT of
\* the measurement, after the event was inserted and the cycle updated, and
\* no event is recorded
C23_Witness ==
    /\ result["api1"].tag = "exception"
    /\ result["api1"].error = "nutrient_measurements"
    /\ rainfall_events = <<>>
    /\ \E c \in CycleIds : crop_cycles[c].current = crop_cycles[c].initial

C24_CompleteSetsFinal ==
    [][\A p \in Procs :
          (/\ pc[p] = "complete_write"
           /\ pc'[p] # "complete_write"
           /\ Len(nutrient_measurements') > Len(nutrient_measurements)
           /\ crop_cycles[loc[p].cid].status = "active")
          => LET cid == loc[p].cid
                 row == crop_cycles[cid]
                 final == [n \in Nutrients |->
                              IF row.current[n] - row.uptake[n] > 0
                              THEN row.current[n] - row.uptake[n] ELSE 0]
                 below == final.N < 3000 \/ final.P < 1000 \/ final.K < 4000
             IN  /\ crop_cycles'[cid].final = final
                 /\ crop_cycles'[cid].status = "completed"
                 /\ crop_cycles'[cid].actual_end_date = today
                 /\ Len(nutrient_measurements') = Len(nutrient_measurements) + 1
                 /\ LET m == nutrient_measurements'[Len(nutrient_measurements')]
                    IN  /\ m.cycle_id = cid
                        /\ m.measurement_type = "cycle_end"
                        /\ m.levels = final
                 /\ p \in Workers =>
                       /\ result'[p].below_threshold = below
                       /\ result'[p].can_continue = ~below]_vars

\* C28: a call of get_cycle_status, for a cycle in any state and however
\* often it is made, leaves the cycle's row, the rainfall events, the
\* measurements and the recommendations as they were.  A step in which a
\* request thread stays idle with the status in its result, no request is
\* accepted and neither the monitor nor the clock moves is such a call
C28_GetStatusNeverMutates ==
    [][\A p \in Workers :
          (/\ pc[p] = "idle" /\ pc' = pc
           /\ result'[p].tag = "CycleStatus"
           /\ calls' = calls /\ mon' = mon /\ tick' = tick
           /\ hour' = hour /\ today' = today)
          => store' = store]_vars

\* the status was served while a cycle with a rainfall event and a
\* recommendation is completed, and while the clock is past its last check
C28_Witness ==
    /\ result["api1"].tag = "CycleStatus"
    /\ \E c \in CycleIds :
          /\ crop_cycles[c].status = "completed"
          /\ crop_cycles[c].rainfall_event_count >= 1
          /\ crop_cycles[c].last_weather_check < hour
    /\ soil_test_recommendations # <<>>

\* C29: a start request for a crop that the crop database does not hold
\* fails as an unknown crop and creates nothing: the tables are unchanged (no
\* cycle row, no cycle_start measurement), the farmer's next cycle number is
\* the same as before, and no cycle of such a crop is ever inserted or about
\* to be
C29_UnknownCropCreatesNothing ==
    [][/\ \A c \in 1 .. Len(crop_cycles') :
             crop_cycles'[c].crop_name \in {"mungbean", "rice"}
       /\ \A p \in Workers :
             /\ pc'[p] = "start_insert" => loc'[p].req.crop \in {"mungbean", "rice"}
             /\ (/\ pc[p] = "idle" /\ pc'[p] = "idle"
                 /\ calls' = calls + 1
                 /\ result'[p].tag = "UnknownCrop")
                => /\ store' = store
                   /\ \A f \in {1, 2} : NextCycleNumber(f)' = NextCycleNumber(f)]_vars

\* the second request, for quinoa, failed after a cycle was started: one row,
\* one measurement
C29_Witness ==
    /\ result["api1"].tag = "UnknownCrop"
    /\ calls = 2
    /\ Len(crop_cycles) = 1
    /\ Len(nutrient_measurements) = 1
    /\ NextCycleNumber(1) = 2

\* C30: the rainfall job enumerates exactly the active cycles, each once, in
\* ascending order of last_weather_check, and passes them to
\* check_and_process_rainfall in that order: at every moment the cycles
\* passed so far are the first ones of the enumeration
C30_AscendingLastChecked ==
    [][/\ (pc["sched"] = "enum" /\ pc'["sched"] \notin {"enum", "dead"})
          => /\ {tick'.cycles[i] : i \in DOMAIN tick'.cycles}
                   = {c \in CycleIds : crop_cycles[c].status = "active"}
             /\ \A i, j \in DOMAIN tick'.cycles :
                   i < j => /\ tick'.cycles[i] # tick'.cycles[j]
                            /\ crop_cycles[tick'.cycles[i]].last_weather_check
                                  <= crop_cycles[tick'.cycles[j]].last_weather_check
       /\ Len(tick'.passed) <= Len(tick'.cycles)
       /\ tick'.passed = SubSeq(tick'.cycles, 1, Len(tick'.passed))]_vars

\* cycle 2 was checked longer ago than cycle 1: it is enumerated and passed
\* first
C30_Witness ==
    /\ tick.cycles = <<2, 1>>
    /\ tick.passed = <<2>>
    /\ crop_cycles[2].last_weather_check < crop_cycles[1].last_weather_check

C38_SlopeFactorRange ==
    \A s \in SoilTypes :
       (calc.mode = "simple" /\ calc.by_soil[s].ok)
       => LET sfac == calculate_slope_factor(calc.slope_degrees)
          IN  /\ sfac.d <= sfac.n
              /\ sfac.n <= 2 * sfac.d
              /\ \A n \in Nutrients :
                    /\ calc.by_soil[s].runoff_loss[n] >= 0
                    /\ calc.by_soil[s].runoff_loss[n] >=
                          NutrientLoss(n, calc.current[n], s, calc.rainfall_mm,
                                       calc.duration_hours, 0).runoff_loss

\* C31: the call with 50 mm in 3 hours on N=90, P=42, K=43 in loamy soil at
\* the default slope has intensity factor (50/3)/25 = 2/3 (0.67) and slope
\* factor 1.2, reports for N a leaching loss of 6.75, a runoff loss of 10.8
\* and 72.45 remaining, for P 1.05, 6.72 and 34.23, for K 2.58, 6.19 and
\* 34.23, each total loss being the level less the remaining, and no
\* remaining level is negative
C31_WorkedExample ==
    (/\ calc.mode = "simple"
     /\ calc.rainfall_mm = 50
     /\ calc.duration_hours = 3
     /\ calc.slope_degrees = DEFAULT_SLOPE
     /\ calc.current = [N |-> 9000, P |-> 4200, K |-> 4300])
    => /\ calculate_intensity_factor(calc.rainfall_mm, calc.duration_hours) = Frac(2, 3)
       /\ Round2(Mixed(200, 3)) = 67
       /\ calculate_slope_factor(calc.slope_degrees) = Frac(12, 10)
       /\ calc.by_soil["loamy"].ok
       /\ calc.by_soil["loamy"].leaching_loss = [N |-> 675, P |-> 105, K |-> 258]
       /\ calc.by_soil["loamy"].runoff_loss = [N |-> 1080, P |-> 672, K |-> 619]
       /\ calc.by_soil["loamy"].loss = [N |-> 1755, P |-> 777, K |-> 877]
       /\ calc.by_soil["loamy"].remaining = [N |-> 7245, P |-> 3423, K |-> 3423]
       /\ \A n \in Nutrients : calc.by_soil["loamy"].remaining[n] >= 0

\* the call of TEST 1 has been made and 72.45 kg/ha of N remain
C31_Witness ==
    /\ calc.mode = "simple"
    /\ calc.rainfall_mm = 50
    /\ calc.duration_hours = 3
    /\ calc.slope_degrees = DEFAULT_SLOPE
    /\ calc.current = [N |-> 9000, P |-> 4200, K |-> 4300]
    /\ calc.by_soil["loamy"].ok
    /\ calc.by_soil["loamy"].remaining["N"] = 7245

\* C33: for every call the calculator accepts and every nutrient, the
\* reported leaching loss is level * leach_coef * rainfall / 100, the
\* reported runoff loss level * runoff_coef * intensity_factor *
\* slope_factor, the total loss min(leaching + runoff, level) and the
\* remaining level the level less the total loss; hence 0 <= total loss <=
\* level and total loss + remaining = level
C33_LossFormula ==
    \A s \in SoilTypes : \A n \in Nutrients :
       (calc.mode = "simple" /\ calc.by_soil[s].ok)
       => LET ifac == calculate_intensity_factor(calc.rainfall_mm, calc.duration_hours)
              sfac == calculate_slope_factor(calc.slope_degrees)
              leaching == Mixed(calc.current[n] * LEACHING_COEFFICIENTS[n][s]
                                   * calc.rainfall_mm, 10000)
              runoff == Mixed(calc.current[n] * RUNOFF_COEFFICIENTS[n][s]
                                 * ifac.n * sfac.n, 100 * ifac.d * sfac.d)
              total == MixedMinInt(MixedAdd(leaching, runoff), calc.current[n])
          IN  /\ calc.by_soil[s].leaching_loss[n] = Round2(leaching)
              /\ calc.by_soil[s].runoff_loss[n] = Round2(runoff)
              /\ calc.by_soil[s].loss[n] = Round2(total)
              /\ calc.by_soil[s].remaining[n] = Round2(IntMinusMixed(calc.current[n], total))
              /\ 0 <= calc.by_soil[s].loss[n]
              /\ calc.by_soil[s].loss[n] <= calc.current[n]
              /\ calc.by_soil[s].loss[n] + calc.by_soil[s].remaining[n] = calc.current[n]

\* C32: the rainfall events of a cycle, in the order they were appended,
\* form a chain: the first one's levels before the event are the cycle's
\* initial levels, each later one's levels before are the previous one's
\* levels after, and the last one's levels after are the cycle's current
\* levels
C32_EventsFormChain ==
    \A c \in CycleIds :
       LET ev == EventsOf(c)
       IN  Len(ev) > 0
           => /\ ev[1].before = crop_cycles[c].initial
              /\ \A i \in 2..Len(ev) : ev[i].before = ev[i - 1].after
              /\ ev[Len(ev)].after = crop_cycles[c].current

\* C34: for every active cycle and each nutrient, the initial level less the
\* current level is the cumulative rainfall loss recorded on the cycle
C34_LossesAreConserved ==
    \A c \in CycleIds : \A n \in Nutrients :
       crop_cycles[c].status = "active"
       => crop_cycles[c].initial[n] - crop_cycles[c].current[n]
             = crop_cycles[c].total_rainfall_loss[n]

\* C35: the rainfall_event_count of every cycle is the number of its
\* rainfall events and the number of its rainfall_update measurements
C35_CountIsEventsIsUpdates ==
    \A c \in CycleIds :
       /\ crop_cycles[c].rainfall_event_count = Len(EventsOf(c))
       /\ crop_cycles[c].rainfall_event_count =
             Len(SelectSeq(MeasurementsOf(c),
                           LAMBDA m : m.measurement_type = "rainfall_update"))

\* a cycle with two rainfall events, two rainfall_update measurements and a
\* count of 2
C35_Witness ==
    \E c \in CycleIds :
       /\ crop_cycles[c].rainfall_event_count = 2
       /\ Len(EventsOf(c)) = 2
       /\ Len(SelectSeq(MeasurementsOf(c),
                        LAMBDA m : m.measurement_type = "rainfall_update")) = 2

\* C37: the measurements of every cycle begin with a cycle_start holding the
\* cycle's initial levels, which is the only cycle_start; there is at most
\* one cycle_end, there is one exactly when the cycle is completed, and no
\* measurement follows it
C37_MeasurementLogShape ==
    \A c \in CycleIds :
       LET ms == MeasurementsOf(c)
           ends == {i \in 1..Len(ms) : ms[i].measurement_type = "cycle_end"}
       IN  /\ Len(ms) > 0
           /\ ms[1].measurement_type = "cycle_start"
           /\ ms[1].levels = crop_cycles[c].initial
           /\ \A i \in 2..Len(ms) : ms[i].measurement_type # "cycle_start"
           /\ Cardinality(ends) <= 1
           /\ (ends # {}) <=> (crop_cycles[c].status = "completed")
           /\ \A i \in ends : i = Len(ms)

\* C36: whatever start() and stop() calls are made on a WeatherMonitor, at
\* most one thread is inside run_scheduled_checks, at most one copy of each
\* periodic job is registered, and a start() made while the monitor is
\* running creates no thread
C36_OneLoopOneJobList ==
    /\ [](Cardinality({i \in 1..Len(mon.threads) : mon.threads[i] # "ended"}) <= 1)
    /\ [](mon.jobs <= 1)
    /\ [][mon.is_running => Len(mon'.threads) = Len(mon.threads)]_vars

=============================================================================
